---- MODULE Spec2Model ----
(***************************************************************************)
(* scheduler-service: availability rules, slot derivation, booking and     *)
(* cancellation, as a state machine over the two tables of the store.      *)
(* Every database statement of a handler is one atomic step; statements of *)
(* concurrent requests interleave.  Statements on the pool see committed   *)
(* rows only (READ COMMITTED); rows inserted in a transaction are held in  *)
(* pend until the commit.                                                  *)
(***************************************************************************)
EXTENDS Integers, Sequences, FiniteSets, TLC

\* ------------------------------------------------------------------ time
\* An instant is a number of seconds since the midnight that starts a Sunday.
Second == 1
Minute == 60
Hour == 3600
Day == 86400

\* time.Time.Truncate(24 * time.Hour) of a UTC instant: the midnight before it
Truncate(t) == t - (t % Day)

\* time.Time.Weekday(): Sunday = 0
Weekday(t) == (t \div Day) % 7

\* an instant of the modelled week: weekday d, h:m
At(d, h, m) == d * Day + h * Hour + m * Minute

\* ------------------------------------------------------------ clock text
\* A time of day is stored as text; a text is a sequence of characters.
ParseError == -1

Digits == <<"0", "1", "2", "3", "4", "5", "6", "7", "8", "9">>

IsDigit(s, i) == i <= Len(s) /\ \E k \in 1..10 : Digits[k] = s[i]

DigitVal(c) == (CHOOSE k \in 1..10 : Digits[k] = c) - 1

\* s[:n-1] dropped: the text from position n on
Rest(s, n) == SubSeq(s, n, Len(s))

\* time.Parse("15:04", s) as minutes since midnight: the hour takes one or
\* two digits, the minute exactly two, and nothing may follow.
TimeParse1504(s) ==
    IF ~IsDigit(s, 1) THEN ParseError
    ELSE LET two  == IsDigit(s, 2)
             hour == IF two THEN 10 * DigitVal(s[1]) + DigitVal(s[2]) ELSE DigitVal(s[1])
             v    == Rest(s, IF two THEN 3 ELSE 2)
         IN  IF hour >= 24 THEN ParseError
             ELSE IF Len(v) = 0 \/ v[1] # ":" THEN ParseError
             ELSE IF ~(IsDigit(v, 2) /\ IsDigit(v, 3)) THEN ParseError
             ELSE LET min == 10 * DigitVal(v[2]) + DigitVal(v[3])
                  IN  IF min >= 60 THEN ParseError
                      ELSE IF Len(v) > 3 THEN ParseError
                      ELSE 60 * hour + min

\* parseHHMM: at least five characters, of which the first five are parsed
parseHHMM(s) ==
    IF Len(s) < 5 THEN ParseError ELSE TimeParse1504(SubSeq(s, 1, 5))

\* the clock texts used as inputs
T0900 == <<"0", "9", ":", "0", "0">>
T1000 == <<"1", "0", ":", "0", "0">>
T1100 == <<"1", "1", ":", "0", "0">>

\* ------------------------------------------------------------ the tables
Slot(s, e) == [StartUTC |-> s, EndUTC |-> e]

\* models.AvailabilityRule without its timestamps (see stamps), sent without
\* a title
Rule(u, d, st, en, len, av) ==
    [UserID |-> u, DayOfWeek |-> d, StartTime |-> st, EndTime |-> en,
     SlotLengthMins |-> len, Title |-> "", Available |-> av]

\* the rule sent with a title
Titled(r, t) == [r EXCEPT !.Title = t]

\* models.Booking without the unvalidated metadata
Booking(u, s, e, st) == [UserID |-> u, StartAtUTC |-> s, EndAtUTC |-> e, Status |-> st]

\* ---------------------------------------------------- slot derivation
\* Tile as it would be if the rule's available flag were not looked at
RECURSIVE TileIgnoringAvailable(_, _, _, _, _, _)
TileIgnoringAvailable(s0, utcEnd, slotLen, fromUTC, toUTC, available) ==
    IF s0 + slotLen <= utcEnd
    THEN (IF ~(s0 + slotLen > fromUTC) \/ ~(s0 < toUTC)
          THEN <<>>
          ELSE <<Slot(s0, s0 + slotLen)>>)
         \o TileIgnoringAvailable(s0 + slotLen, utcEnd, slotLen, fromUTC, toUTC, available)
    ELSE <<>>

\* Tile as it would be if the loop went on only while a slot ends before
\* utcEnd: the slot that ends with the rule is lost
RECURSIVE TileStrictEnd(_, _, _, _, _, _)
TileStrictEnd(s0, utcEnd, slotLen, fromUTC, toUTC, available) ==
    IF s0 + slotLen < utcEnd
    THEN (IF ~(s0 + slotLen > fromUTC) \/ ~(s0 < toUTC) \/ ~available
          THEN <<>>
          ELSE <<Slot(s0, s0 + slotLen)>>)
         \o TileStrictEnd(s0 + slotLen, utcEnd, slotLen, fromUTC, toUTC, available)
    ELSE <<>>

\* Tile as it would be with the test of the available flag turned round
RECURSIVE TileInvertedAvailable(_, _, _, _, _, _)
TileInvertedAvailable(s0, utcEnd, slotLen, fromUTC, toUTC, available) ==
    IF s0 + slotLen <= utcEnd
    THEN (IF ~(s0 + slotLen > fromUTC) \/ ~(s0 < toUTC) \/ available
          THEN <<>>
          ELSE <<Slot(s0, s0 + slotLen)>>)
         \o TileInvertedAvailable(s0 + slotLen, utcEnd, slotLen, fromUTC, toUTC, available)
    ELSE <<>>

\* Tile as it would be with endUTC.Before(fromUTC) as the test: a slot that
\* ends at the start of the window is kept
RECURSIVE TileClosedWindow(_, _, _, _, _, _)
TileClosedWindow(s0, utcEnd, slotLen, fromUTC, toUTC, available) ==
    IF s0 + slotLen <= utcEnd
    THEN (IF (s0 + slotLen < fromUTC) \/ ~(s0 < toUTC) \/ ~available
          THEN <<>>
          ELSE <<Slot(s0, s0 + slotLen)>>)
         \o TileClosedWindow(s0 + slotLen, utcEnd, slotLen, fromUTC, toUTC, available)
    ELSE <<>>

\* the slots of one rule on one day from s0 on, filtered by the window
\* (the for loop over s0 of GenerateAvailableSlots)
RECURSIVE Tile(_, _, _, _, _, _)
Tile(s0, utcEnd, slotLen, fromUTC, toUTC, available) ==
    IF s0 + slotLen <= utcEnd
    THEN (IF ~(s0 + slotLen > fromUTC) \/ ~(s0 < toUTC) \/ ~available
          THEN <<>>
          ELSE <<Slot(s0, s0 + slotLen)>>)
         \o Tile(s0 + slotLen, utcEnd, slotLen, fromUTC, toUTC, available)
    ELSE <<>>

NoErr == ""
ErrInvalidTime == "invalid time string"
ErrEndBeforeStart == "end_time must be after start_time"
\* the slot loop never ends: s0 does not advance towards utcEnd
NonTerminating == "does not return"

\* Candidates as it would be without the test of endTOD against startTOD
RECURSIVE CandidatesNoRecheck(_, _, _, _, _, _)
CandidatesNoRecheck(rs, day, i, endDate, fromUTC, toUTC) ==
    IF day > endDate THEN [err |-> NoErr, slots |-> <<>>]
    ELSE IF i > Len(rs) THEN CandidatesNoRecheck(rs, day + Day, 1, endDate, fromUTC, toUTC)
    ELSE LET r == rs[i] IN
         IF Weekday(day) # r.DayOfWeek
         THEN CandidatesNoRecheck(rs, day, i + 1, endDate, fromUTC, toUTC)
         ELSE LET startTOD == parseHHMM(r.StartTime)
                  endTOD   == parseHHMM(r.EndTime)
              IN  IF startTOD = ParseError \/ endTOD = ParseError
                  THEN [err |-> ErrInvalidTime, slots |-> <<>>]
                  ELSE IF r.SlotLengthMins <= 0
                  THEN [err |-> NonTerminating, slots |-> <<>>]
                  ELSE LET here == Tile(day + startTOD * Minute, day + endTOD * Minute,
                                        r.SlotLengthMins * Minute, fromUTC, toUTC,
                                        r.Available)
                           rest == CandidatesNoRecheck(rs, day, i + 1, endDate,
                                                       fromUTC, toUTC)
                       IN  IF rest.err # NoErr THEN rest
                           ELSE [err |-> NoErr, slots |-> here \o rest.slots]

\* Candidates as it would be with the loop over the rules outside the loop
\* over the days: all slots of a rule come before those of the next rule
RECURSIVE CandidatesRuleMajor(_, _, _, _, _, _)
CandidatesRuleMajor(rs, day, i, endDate, fromUTC, toUTC) ==
    IF i > Len(rs) THEN [err |-> NoErr, slots |-> <<>>]
    ELSE IF day > endDate
    THEN CandidatesRuleMajor(rs, Truncate(fromUTC), i + 1, endDate, fromUTC, toUTC)
    ELSE LET r == rs[i] IN
         IF Weekday(day) # r.DayOfWeek
         THEN CandidatesRuleMajor(rs, day + Day, i, endDate, fromUTC, toUTC)
         ELSE LET startTOD == parseHHMM(r.StartTime)
                  endTOD   == parseHHMM(r.EndTime)
              IN  IF startTOD = ParseError \/ endTOD = ParseError
                  THEN [err |-> ErrInvalidTime, slots |-> <<>>]
                  ELSE IF ~(endTOD > startTOD)
                  THEN [err |-> ErrEndBeforeStart, slots |-> <<>>]
                  ELSE IF r.SlotLengthMins <= 0
                  THEN [err |-> NonTerminating, slots |-> <<>>]
                  ELSE LET here == Tile(day + startTOD * Minute, day + endTOD * Minute,
                                        r.SlotLengthMins * Minute, fromUTC, toUTC,
                                        r.Available)
                           rest == CandidatesRuleMajor(rs, day + Day, i, endDate,
                                                       fromUTC, toUTC)
                       IN  IF rest.err # NoErr THEN rest
                           ELSE [err |-> NoErr, slots |-> here \o rest.slots]

\* the candidate slots: the loops over the days and the rules, from (day, i)
RECURSIVE Candidates(_, _, _, _, _, _)
Candidates(rs, day, i, endDate, fromUTC, toUTC) ==
    IF day > endDate THEN [err |-> NoErr, slots |-> <<>>]
    ELSE IF i > Len(rs) THEN Candidates(rs, day + Day, 1, endDate, fromUTC, toUTC)
    ELSE LET r == rs[i] IN
         IF Weekday(day) # r.DayOfWeek
         THEN Candidates(rs, day, i + 1, endDate, fromUTC, toUTC)
         ELSE LET startTOD == parseHHMM(r.StartTime)
                  endTOD   == parseHHMM(r.EndTime)
              IN  IF startTOD = ParseError \/ endTOD = ParseError
                  THEN [err |-> ErrInvalidTime, slots |-> <<>>]
                  ELSE IF ~(endTOD > startTOD)
                  THEN [err |-> ErrEndBeforeStart, slots |-> <<>>]
                  ELSE IF r.SlotLengthMins <= 0
                  THEN [err |-> NonTerminating, slots |-> <<>>]
                  ELSE LET here == Tile(day + startTOD * Minute, day + endTOD * Minute,
                                        r.SlotLengthMins * Minute, fromUTC, toUTC,
                                        r.Available)
                           rest == Candidates(rs, day, i + 1, endDate, fromUTC, toUTC)
                       IN  IF rest.err # NoErr THEN rest
                           ELSE [err |-> NoErr, slots |-> here \o rest.slots]

\* the candidates of a rule list over a window
CandidateSlots(rs, fromUTC, toUTC) ==
    Candidates(rs, Truncate(fromUTC), 1, Truncate(toUTC), fromUTC, toUTC)


\* ------------------------------------------------------------ the bounds
\* at most MaxCalls requests are served in a run, and at most MaxFailures of
\* their statements fail in the store; the tables hold at most MaxRules and
\* MaxBookings rows
MaxCalls == 2
MaxFailures == 1
MaxRules == 2
MaxBookings == 2

\* the requests served concurrently: the goroutines that serve them, in the
\* order in which they take a request when several are free
WorkerOrder == <<"w1", "w2">>
Workers == {WorkerOrder[k] : k \in DOMAIN WorkerOrder}

RuleIds == 1..MaxRules
BookingIds == 1..MaxBookings

VARIABLES
    rules,      \* availability_rules: rule id -> rule (committed rows)
    stamps,     \* availability_rules: rule id -> created_at and updated_at
    bookings,   \* bookings: booking id -> booking (committed rows)
    apiKeys,    \* api_keys: row id -> the email and key hash of the row
    pc,         \* worker -> the statement its request executes next
    op,         \* worker -> the request it serves (or served last)
    res,        \* worker -> the error the request returns ("ok": none)
    slots,      \* worker -> the slots GenerateAvailableSlots returned
    out,        \* worker -> the records the request returns
    rsnap,      \* worker -> the rules read by ListAvailabilityRules
    upd,        \* worker -> the rule UpdateAvailability writes
    idx,        \* worker -> the index i of SetAvailability's loop
    pend,       \* worker -> the rows inserted in its open transaction
    locks,      \* worker -> the booking ids its open transaction has locked
    newID,      \* worker -> the id InsertBooking returned (0: none)
    made,       \* history: worker -> the ids its request has committed
    pre,        \* history: worker -> facts of the store when the request came
    cancelOk,   \* history: the ids for which a CancelBooking has returned nil
    issued,     \* history: the API keys written so far, in the order written
    calls,      \* history: the requests served so far
    fails,      \* history: the statements failed so far
    writes      \* history: the statements that have changed a table so far

store == <<rules, stamps, bookings, apiKeys>>
locals == <<pc, op, res, slots, out, rsnap, upd, idx, pend, locks, newID>>
history == <<made, pre, cancelOk, issued, calls, fails, writes>>
vars == <<store, locals, history>>

\* ------------------------------------------------------ the repositories
\* a set of numbers as the ascending sequence of its elements
RECURSIVE Ascending(_)
Ascending(S) ==
    IF S = {} THEN <<>>
    ELSE LET m == CHOOSE x \in S : \A y \in S : x <= y
         IN  <<m>> \o Ascending(S \ {m})

\* ListAvailabilityRules as it would be without ORDER BY id: the rows come
\* in the order the store holds them at the time, here turned round with
\* every request that has come in
ListAvailabilityRulesUnordered(rl, userID) ==
    LET ids == Ascending({i \in DOMAIN rl : rl[i].UserID = userID})
        n   == Len(ids)
    IN  [k \in 1..n |-> IF calls % 2 = 1 THEN rl[ids[k]] ELSE rl[ids[n + 1 - k]]]

\* AvailabilityRepo.ListAvailabilityRules: the user's rules, ORDER BY id
ListAvailabilityRules(rl, userID) ==
    LET ids == Ascending({i \in DOMAIN rl : rl[i].UserID = userID})
    IN  [k \in 1..Len(ids) |-> rl[ids[k]]]

\* GetAvailabilityRule as it would be without the condition on user_id
GetAvailabilityRuleAnyUser(rl, userID, ruleID) ==
    {i \in DOMAIN rl : i = ruleID}

\* AvailabilityRepo.GetAvailabilityRule: the ids of the rows WHERE id AND user_id
GetAvailabilityRule(rl, userID, ruleID) ==
    {i \in DOMAIN rl : i = ruleID /\ rl[i].UserID = userID}

\* ListBookingsInRange as it would be without the condition on user_id
ListBookingsInRangeAnyUser(bk, userID, from, to) ==
    {i \in DOMAIN bk : /\ bk[i].StartAtUTC >= from
                       /\ bk[i].StartAtUTC < to
                       /\ bk[i].Status = "confirmed"}

\* BookingRepo.ListBookingsInRange: ids of the user's confirmed bookings that
\* start in [from, to)
ListBookingsInRange(bk, userID, from, to) ==
    {i \in DOMAIN bk : /\ bk[i].UserID = userID
                       /\ bk[i].StartAtUTC >= from
                       /\ bk[i].StartAtUTC < to
                       /\ bk[i].Status = "confirmed"}

\* ListBookings as it would be with start_at_utc <= $3 as the end of the range
ListBookingsClosedRange(bk, userID, from, to, filtered) ==
    {i \in DOMAIN bk : /\ bk[i].UserID = userID
                       /\ bk[i].Status # "cancelled"
                       /\ filtered => (bk[i].StartAtUTC >= from /\ bk[i].StartAtUTC <= to)}

\* BookingRepo.ListBookings: ids of the user's bookings that are not
\* cancelled, in the range when filtered
ListBookings(bk, userID, from, to, filtered) ==
    {i \in DOMAIN bk : /\ bk[i].UserID = userID
                       /\ bk[i].Status # "cancelled"
                       /\ filtered => (bk[i].StartAtUTC >= from /\ bk[i].StartAtUTC < to)}

\* CheckExistingBookingAtStart as it would be without the condition on the
\* start: any confirmed booking of the user is found, and locked
CheckExistingAnyStart(bk, userID, start) ==
    {i \in DOMAIN bk : /\ bk[i].UserID = userID
                       /\ bk[i].Status = "confirmed"}

\* CheckExistingBookingAtStart as it would be with another status literal
CheckExistingWrongStatus(bk, userID, start) ==
    {i \in DOMAIN bk : /\ bk[i].UserID = userID
                       /\ bk[i].Status = "booked"
                       /\ bk[i].StartAtUTC = start}

\* BookingRepo.CheckExistingBookingAtStart: the rows the SELECT ... FOR UPDATE
\* returns, and locks: the user's confirmed bookings at that start
CheckExistingBookingAtStart(bk, userID, start) ==
    {i \in DOMAIN bk : /\ bk[i].UserID = userID
                       /\ bk[i].Status = "confirmed"
                       /\ bk[i].StartAtUTC = start}

\* CancelBookingRows as it would be without the condition on the status
CancelBookingRowsAnyStatus(bk, id) ==
    {i \in DOMAIN bk : i = id}

\* BookingRepo.CancelBooking: the rows the UPDATE changes
CancelBookingRows(bk, id) ==
    {i \in DOMAIN bk : i = id /\ bk[i].Status # "cancelled"}

\* the rows of other open transactions' locks
LockedByOthers(w) == UNION {locks[v] : v \in Workers \ {w}}

\* --------------------------------------------------------------- service
\* validateAvailabilityRule as it would be with endTime.Before(startTime) as
\* the test: equal times pass
validateAllowsEqual(rule) ==
    LET startTime == TimeParse1504(rule.StartTime)
        endTime   == TimeParse1504(rule.EndTime)
    IN  IF startTime = ParseError \/ endTime = ParseError THEN "parsing time"
        ELSE IF endTime < startTime THEN ErrEndBeforeStart
        ELSE NoErr

\* validateAvailabilityRule
validateAvailabilityRule(rule) ==
    LET startTime == TimeParse1504(rule.StartTime)
        endTime   == TimeParse1504(rule.EndTime)
    IN  IF startTime = ParseError \/ endTime = ParseError THEN "parsing time"
        ELSE IF ~(endTime > startTime) THEN ErrEndBeforeStart
        ELSE NoErr

\* the second half of GenerateAvailableSlots: the candidates whose start is
\* not the start of one of the bookings read
RemoveBooked(candidate, bk, booked) ==
    SelectSeq(candidate, LAMBDA sl : \A i \in booked : bk[i].StartAtUTC # sl.StartUTC)

\* GenerateAvailableSlots on one state of both tables (no write in between)
GenerateAvailableSlots(rl, bk, userID, fromUTC, toUTC) ==
    LET rs == ListAvailabilityRules(rl, userID)
        c  == CandidateSlots(rs, fromUTC, toUTC)
    IN  IF Len(rs) = 0 THEN [err |-> NoErr, slots |-> <<>>]
        ELSE IF c.err # NoErr THEN c
        ELSE [err |-> NoErr,
              slots |-> RemoveBooked(c.slots, bk,
                            ListBookingsInRange(bk, userID, fromUTC - Hour, toUTC + Hour))]

\* SlotMatches as it would be if only the start were compared
SlotMatchesStartOnly(sls, start, end) ==
    \E k \in 1..Len(sls) : sls[k].StartUTC = start

\* the loop of CreateBooking over the slots: one has the requested start and end
SlotMatches(sls, start, end) ==
    \E k \in 1..Len(sls) : sls[k].StartUTC = start /\ sls[k].EndUTC = end

\* ---------------------------------------------------------------- inputs
\* the rules clients send (UserID is set by the service)
RMon30 == Rule("", 1, T0900, T1000, 30, TRUE)
RMon120 == Rule("", 1, T0900, T1100, 120, TRUE)
RMonOff == Rule("", 1, T0900, T1000, 30, FALSE)
RBackwards == Rule("", 1, T1000, T0900, 30, TRUE)
RSameDay == Rule("", 0, T0900, T1100, 60, TRUE)

REqual == Rule("", 1, T0900, T0900, 30, TRUE)
RZeroLen == Rule("", 1, T0900, T1000, 0, TRUE)
RNoDay == Rule("", 7, T0900, T1000, 30, TRUE)
RNegLen == Rule("", 1, T0900, T1000, -30, TRUE)
RRetitled == Titled(Rule("", 0, T1000, T1100, 60, FALSE), "focus")

RSun30 == Rule("", 0, T0900, T1000, 30, TRUE)
RTue60 == Rule("", 2, T0900, T1100, 60, TRUE)

RMon25 == Rule("", 1, T0900, T1000, 25, TRUE)
RWedBackwards == Rule("", 3, T1000, T0900, 30, TRUE)

Owned(r, u) == [r EXCEPT !.UserID = u]

\* a request: its handler, and the arguments the handler reads
Request(type, user, from, to, id, batch) ==
    [type |-> type, user |-> user, from |-> from, to |-> to, id |-> id, batch |-> batch]

NoRequest == Request("none", "", 0, 0, 0, <<>>)

CreateInputs ==
    { Request("CreateBooking", "u1", At(1, 9, 0), At(1, 9, 30), 0, <<>>),
      Request("CreateBooking", "u1", At(1, 9, 15), At(1, 9, 45), 0, <<>>),
      Request("CreateBooking", "u1", At(1, 9, 0), At(1, 11, 0), 0, <<>>),
      Request("CreateBooking", "u2", At(1, 9, 0), At(1, 9, 30), 0, <<>>) }

CancelInputs ==
    { Request("CancelBooking", "", 0, 0, id, <<>>) : id \in BookingIds }

SlotsInputs ==
    { Request("GetSlots", "u1", At(1, 0, 0), At(2, 0, 0), 0, <<>>),
      Request("GetSlots", "u1", At(1, 10, 30), At(1, 10, 45), 0, <<>>) }

SetInputs ==
    { Request("SetAvailability", "u1", 0, 0, 0, <<RMon120>>),
      Request("SetAvailability", "u1", 0, 0, 0, <<RMonOff, RBackwards>>) }

UpdateInputs ==
    { Request("UpdateAvailability", "u1", 0, 0, id, <<RSameDay>>) : id \in RuleIds }

ListInputs ==
    { Request("ListAvailability", "u1", 0, 0, 0, <<>>),
      Request("ListBookings", "u1", 0, 0, 0, <<>>) }

Inputs == CreateInputs \cup CancelInputs \cup SlotsInputs \cup SetInputs
            \cup UpdateInputs \cup ListInputs

\* the requests of the clients that manage the rules
RuleInputs ==
    { Request("SetAvailability", "u1", 0, 0, 0, b) :
        b \in {<<RMon30, RBackwards>>, <<REqual>>, <<RZeroLen>>, <<RNoDay>>} }
    \cup { Request("UpdateAvailability", "u1", 0, 0, 1, <<r>>) :
              r \in {RSameDay, RBackwards, RZeroLen, RTue60} }
    \cup { Request("UpdateAvailability", "u1", 0, 0, 2, <<RSameDay>>),
            Request("UpdateAvailability", "u2", 0, 0, 1, <<RSameDay>>),
            Request("ListAvailability", "u1", 0, 0, 0, <<>>) }

\* the stores a run starts from: empty, or as earlier requests have left it
\* (rules set, a slot booked, a booking cancelled)
InitStores ==
    { [rules |-> <<>>, bookings |-> <<>>, cancelOk |-> {}],
      [rules |-> <<Owned(RMon30, "u1")>>, bookings |-> <<>>, cancelOk |-> {}],
      [rules |-> <<Owned(RMon30, "u1")>>,
       bookings |-> <<Booking("u1", At(1, 9, 0), At(1, 9, 30), "confirmed")>>,
       cancelOk |-> {}],
      [rules |-> <<Owned(RMon120, "u1"), Owned(RMon30, "u2")>>,
       bookings |-> <<>>, cancelOk |-> {}] }

\* the stores the clients that manage the rules start from: those above,
\* and one with a rule of Sunday
RuleStores ==
    InitStores
    \cup { [rules |-> <<Owned(RSun30, "u1")>>, bookings |-> <<>>, cancelOk |-> {}] }

\* the requests of the clients that look for slots, and a cancellation
DeriveInputs ==
    { Request("GetSlots", "u1", win[1], win[2], 0, <<>>) :
        win \in { <<At(1, 0, 0), At(2, 0, 0)>>,
                  <<At(1, 9, 15), At(1, 9, 20)>>,
                  <<At(1, 9, 30), At(1, 9, 45)>>,
                  <<At(1, 9, 0), At(1, 9, 30)>>,
                  <<At(0, 0, 0), At(3, 0, 0)>>,
                  <<At(2, 0, 0), At(2, 12, 0)>> } }
    \cup { Request("GetSlots", "u2", At(1, 0, 0), At(2, 0, 0), 0, <<>>),
            Request("CancelBooking", "", 0, 0, 1, <<>>) }

\* the stores the slots are derived from: rules as the service writes them
\* (no rule of the user, slots that fill the window or leave a rest, two
\* rules on one day, a rule that is not available, a rule of Tuesday set
\* before a rule of Monday), and rules with the end
\* before the start, which only another writer of the table can have left
DeriveStores ==
    { [rules |-> <<Owned(RMon30, "u2")>>,
       bookings |-> <<Booking("u2", At(1, 9, 0), At(1, 9, 30), "confirmed")>>,
       cancelOk |-> {}],
      [rules |-> <<Owned(RMon30, "u1")>>, bookings |-> <<>>, cancelOk |-> {}],
      [rules |-> <<Owned(RMon25, "u1"), Owned(RMon30, "u2")>>,
       bookings |-> <<>>, cancelOk |-> {}],
      [rules |-> <<Owned(RMon30, "u1"), Owned(RMon120, "u1")>>,
       bookings |-> <<Booking("u1", At(1, 9, 30), At(1, 10, 0), "confirmed")>>,
       cancelOk |-> {}],
      [rules |-> <<Owned(RBackwards, "u1"), Owned(RMon30, "u1")>>,
       bookings |-> <<>>, cancelOk |-> {}],
      [rules |-> <<Owned(RMon30, "u1"), Owned(RWedBackwards, "u1")>>,
       bookings |-> <<>>, cancelOk |-> {}],
      [rules |-> <<Owned(RMonOff, "u1"), Owned(RMon120, "u1")>>,
       bookings |-> <<>>, cancelOk |-> {}],
      [rules |-> <<Owned(RTue60, "u1"), Owned(RMon30, "u1")>>,
       bookings |-> <<>>, cancelOk |-> {}] }

\* the requests of the clients that book: two slots of one rule, the slot of
\* a rule of two-hour slots, and the slots of a day and of a quarter of an hour
BookInputs ==
    { Request("CreateBooking", "u1", At(1, 9, 0), At(1, 9, 30), 0, <<>>),
      Request("CreateBooking", "u1", At(1, 9, 30), At(1, 10, 0), 0, <<>>),
      Request("CreateBooking", "u1", At(1, 9, 0), At(1, 11, 0), 0, <<>>),
      Request("GetSlots", "u1", At(1, 0, 0), At(2, 0, 0), 0, <<>>),
      Request("GetSlots", "u1", At(1, 10, 30), At(1, 10, 45), 0, <<>>) }

\* the stores the clients book in: one rule, the same rule set twice, and
\* two rules with different slot lengths on one day
BookStores ==
    { [rules |-> <<Owned(RMon30, "u1")>>, bookings |-> <<>>, cancelOk |-> {}],
      [rules |-> <<Owned(RMon30, "u1"), Owned(RMon120, "u1")>>,
       bookings |-> <<>>, cancelOk |-> {}],
      [rules |-> <<Owned(RMon30, "u1"), Owned(RMon30, "u1")>>,
       bookings |-> <<>>, cancelOk |-> {}],
      [rules |-> <<Owned(RMon120, "u1"), Owned(RMon120, "u1")>>,
       bookings |-> <<>>, cancelOk |-> {}] }

\* the requests of the clients that list a user's bookings, all of them or
\* those of a range (id 1: from and to are both given), and that cancel
ListingInputs ==
    { Request("ListBookings", "u1", 0, 0, 0, <<>>),
      Request("ListBookings", "u1", At(1, 9, 0), At(1, 9, 30), 1, <<>>),
      Request("ListBookings", "u1", At(1, 9, 30), At(2, 0, 0), 1, <<>>),
      Request("ListBookings", "u2", At(1, 0, 0), At(2, 0, 0), 1, <<>>) }
    \cup { Request("CancelBooking", "", 0, 0, id, <<>>) : id \in {1, 2} }

\* the stores the bookings are listed from: two bookings of a user, the
\* later one made first; a cancelled one; one of another user
ListingStores ==
    { [rules |-> <<Owned(RMon30, "u1")>>,
       bookings |-> <<Booking("u1", At(1, 9, 30), At(1, 10, 0), "confirmed"),
                      Booking("u1", At(1, 9, 0), At(1, 9, 30), "confirmed")>>,
       cancelOk |-> {}],
      [rules |-> <<Owned(RMon30, "u1")>>,
       bookings |-> <<Booking("u1", At(1, 9, 0), At(1, 9, 30), "cancelled"),
                      Booking("u1", At(1, 9, 30), At(1, 10, 0), "confirmed")>>,
       cancelOk |-> {1}],
      [rules |-> <<Owned(RMon30, "u1"), Owned(RMon30, "u2")>>,
       bookings |-> <<Booking("u2", At(1, 9, 0), At(1, 9, 30), "confirmed"),
                      Booking("u1", At(1, 9, 0), At(1, 9, 30), "confirmed")>>,
       cancelOk |-> {}] }

\* ----------------------------------------------------------- the machine
\* the state in which the service comes up on one of the stores and one of
\* the api_keys tables
StartWithKeys(stores, tables) ==
    /\ \E t \in tables : apiKeys = [i \in 1..Len(t) |-> t[i]]
    /\ issued = <<>>
    /\ \E st \in stores :
        /\ rules = [i \in 1..Len(st.rules) |-> st.rules[i]]
        /\ stamps = [i \in 1..Len(st.rules) |-> [CreatedAt |-> 0, UpdatedAt |-> 0]]
        /\ bookings = [i \in 1..Len(st.bookings) |-> st.bookings[i]]
        /\ cancelOk = st.cancelOk
    /\ pc = [w \in Workers |-> "idle"]
    /\ op = [w \in Workers |-> NoRequest]
    /\ res = [w \in Workers |-> ""]
    /\ slots = [w \in Workers |-> <<>>]
    /\ out = [w \in Workers |-> <<>>]
    /\ rsnap = [w \in Workers |-> <<>>]
    /\ upd = [w \in Workers |-> <<>>]
    /\ idx = [w \in Workers |-> 0]
    /\ pend = [w \in Workers |-> {}]
    /\ locks = [w \in Workers |-> {}]
    /\ newID = [w \in Workers |-> 0]
    /\ made = [w \in Workers |-> {}]
    /\ pre = [w \in Workers |-> [n |-> 0, seen |-> {}, valid |-> FALSE,
                                 free |-> FALSE, afterOk |-> FALSE,
                                 live |-> FALSE, ver |-> 0]]
    /\ calls = 0
    /\ fails = 0
    /\ writes = 0

\* the state in which the service comes up with no API key issued yet
Start(stores) == StartWithKeys(stores, {<<>>})

Init == Start(InitStores)

InFlight(w) == pc[w] # "idle"

\* the statement a handler starts with
FirstStatement(type) ==
    CASE type = "CreateBooking" -> "begin"
      [] type = "CancelBooking" -> "status"
      [] type = "GetSlots" -> "rules"
      [] type = "SetAvailability" -> "insertRule"
      [] type = "UpdateAvailability" -> "getRule"
      [] type \in {"GenerateAPIKey", "ValidateAPIKey"} -> "keyRequest"
      [] OTHER -> "list"

\* the window GenerateAvailableSlots is called with
FromUTC(o) == IF o.type = "CreateBooking" THEN o.from - Second ELSE o.from
ToUTC(o) == IF o.type = "CreateBooking" THEN o.to + Second ELSE o.to

\* rows the open SetAvailability loops will still insert
RulesToCome ==
    Cardinality({<<v, i>> \in Workers \X (1..MaxRules) :
                    /\ pc[v] = "insertRule"
                    /\ i >= idx[v] /\ i <= Len(op[v].batch)})

BookingsToCome ==
    Cardinality({v \in Workers : InFlight(v) /\ op[v].type = "CreateBooking"})

\* what holds of the store when request o comes to worker w
Facts(w, o) ==
    [n |-> calls + 1,
     seen |-> {pre[v].n : v \in {u \in Workers \ {w} : InFlight(u)}},
     valid |-> /\ o.type = "CreateBooking"
               /\ SlotMatches(GenerateAvailableSlots(rules, bookings, o.user,
                                  FromUTC(o), ToUTC(o)).slots, o.from, o.to),
     free |-> /\ o.type = "CreateBooking"
              /\ CheckExistingBookingAtStart(bookings, o.user, o.from) = {},
     afterOk |-> o.type = "CancelBooking" /\ o.id \in cancelOk,
     live |-> /\ o.type = "CancelBooking"
              /\ o.id \in DOMAIN bookings
              /\ bookings[o.id].Status = "confirmed",
     ver |-> IF o.type = "GetSlots" THEN writes ELSE 0]

\* the free workers that take a request before w does
Earlier(w) ==
    {WorkerOrder[j] : j \in {k \in DOMAIN WorkerOrder :
                                 \E i \in DOMAIN WorkerOrder : WorkerOrder[i] = w /\ k < i}}

\* request o comes in and the first free worker takes it
Serve(w, o) ==
    /\ calls < MaxCalls
    /\ pc[w] = "idle"
    /\ \A v \in Earlier(w) : InFlight(v)
    /\ o.type = "CreateBooking" =>
          Cardinality(DOMAIN bookings) + BookingsToCome < MaxBookings
    /\ o.type = "SetAvailability" =>
          Cardinality(DOMAIN rules) + RulesToCome + Len(o.batch) <= MaxRules
    /\ op' = [op EXCEPT ![w] = o]
    /\ pc' = [pc EXCEPT ![w] = FirstStatement(o.type)]
    /\ pre' = [v \in Workers |->
                 IF v = w THEN Facts(w, o)
                 ELSE IF InFlight(v)
                      THEN [pre[v] EXCEPT !.seen = @ \cup {calls + 1}]
                      ELSE pre[v]]
    /\ res' = [res EXCEPT ![w] = ""]
    /\ slots' = [slots EXCEPT ![w] = <<>>]
    /\ out' = [out EXCEPT ![w] = <<>>]
    /\ rsnap' = [rsnap EXCEPT ![w] = <<>>]
    /\ upd' = [upd EXCEPT ![w] = <<>>]
    /\ idx' = [idx EXCEPT ![w] = 1]
    /\ newID' = [newID EXCEPT ![w] = 0]
    /\ made' = [made EXCEPT ![w] = {}]
    /\ calls' = calls + 1
    /\ UNCHANGED <<store, pend, locks, cancelOk, issued, fails, writes>>

\* a request comes in
Call(w) == \E o \in Inputs : Serve(w, o)

\* --- CreateBooking
\* tx.Begin
Begin(w) ==
    /\ pc[w] = "begin"
    /\ pc' = [pc EXCEPT ![w] = "check"]
    /\ UNCHANGED <<store, op, res, slots, out, rsnap, upd, idx, pend, locks, newID,
                   history>>

\* CheckExistingBookingAtStart in the transaction: waits for the rows another
\* transaction has locked, locks the rows found, and a row found is a conflict
Check(w) ==
    LET found == CheckExistingBookingAtStart(bookings, op[w].user, op[w].from) IN
    /\ pc[w] = "check"
    /\ found \cap LockedByOthers(w) = {}
    /\ locks' = [locks EXCEPT ![w] = found]
    /\ IF found # {}
       THEN /\ res' = [res EXCEPT ![w] = "slot already booked"]
            /\ pc' = [pc EXCEPT ![w] = "rollback"]
       ELSE /\ pc' = [pc EXCEPT ![w] = "rules"]
            /\ UNCHANGED res
    /\ UNCHANGED <<store, op, slots, out, rsnap, upd, idx, pend, newID, history>>

\* GenerateAvailableSlots has returned sl to worker w: GetSlots returns it,
\* CreateBooking looks for the requested slot in it
Derived(w, sl) ==
    /\ slots' = [slots EXCEPT ![w] = sl]
    /\ IF op[w].type = "GetSlots"
       THEN /\ pc' = [pc EXCEPT ![w] = "idle"]
            /\ res' = [res EXCEPT ![w] = "ok"]
       ELSE IF SlotMatches(sl, op[w].from, op[w].to)
       THEN /\ pc' = [pc EXCEPT ![w] = "insert"]
            /\ UNCHANGED res
       ELSE /\ pc' = [pc EXCEPT ![w] = "rollback"]
            /\ res' = [res EXCEPT ![w] = "slot not available"]

\* GenerateAvailableSlots has failed with err
DerivationFailed(w, err) ==
    /\ UNCHANGED slots
    /\ res' = [res EXCEPT ![w] = err]
    /\ pc' = [pc EXCEPT ![w] = IF err = NonTerminating THEN "hung"
                               ELSE IF op[w].type = "GetSlots" THEN "idle"
                               ELSE "rollback"]

\* ListRules as it would be if a user without rules were an error
ListRulesNoneIsError(w) ==
    LET rs == ListAvailabilityRules(rules, op[w].user)
        c  == CandidateSlots(rs, FromUTC(op[w]), ToUTC(op[w]))
    IN
    /\ pc[w] = "rules"
    /\ IF Len(rs) = 0 THEN DerivationFailed(w, "no availability") /\ UNCHANGED rsnap
       ELSE IF c.err # NoErr THEN DerivationFailed(w, c.err) /\ UNCHANGED rsnap
       ELSE /\ rsnap' = [rsnap EXCEPT ![w] = rs]
            /\ pc' = [pc EXCEPT ![w] = "bookings"]
            /\ UNCHANGED <<res, slots>>
    /\ UNCHANGED <<store, op, out, upd, idx, pend, locks, newID, history>>

\* GenerateAvailableSlots up to its second statement: the rules are read on
\* the pool and expanded to the candidate slots
ListRules(w) ==
    LET rs == ListAvailabilityRules(rules, op[w].user)
        c  == CandidateSlots(rs, FromUTC(op[w]), ToUTC(op[w]))
    IN
    /\ pc[w] = "rules"
    /\ IF Len(rs) = 0 THEN Derived(w, <<>>) /\ UNCHANGED rsnap
       ELSE IF c.err # NoErr THEN DerivationFailed(w, c.err) /\ UNCHANGED rsnap
       ELSE /\ rsnap' = [rsnap EXCEPT ![w] = rs]
            /\ pc' = [pc EXCEPT ![w] = "bookings"]
            /\ UNCHANGED <<res, slots>>
    /\ UNCHANGED <<store, op, out, upd, idx, pend, locks, newID, history>>

\* ListBooked as it would be if the derivation swept the table as it read:
\* the user's cancelled bookings are deleted
ListBookedSweeping(w) ==
    LET o      == op[w]
        booked == ListBookingsInRange(bookings, o.user, FromUTC(o) - Hour, ToUTC(o) + Hour)
        c      == CandidateSlots(rsnap[w], FromUTC(o), ToUTC(o))
        swept  == {i \in DOMAIN bookings : /\ bookings[i].UserID = o.user
                                           /\ bookings[i].Status = "cancelled"}
    IN
    /\ pc[w] = "bookings"
    /\ Derived(w, RemoveBooked(c.slots, bookings, booked))
    /\ bookings' = [i \in DOMAIN bookings \ swept |-> bookings[i]]
    /\ UNCHANGED <<rules, stamps, apiKeys, op, out, rsnap, upd, idx, pend, locks, newID, history>>

\* the rest of GenerateAvailableSlots: the bookings are read on the pool and
\* the candidates that start with one are removed
ListBooked(w) ==
    LET o      == op[w]
        booked == ListBookingsInRange(bookings, o.user, FromUTC(o) - Hour, ToUTC(o) + Hour)
        c      == CandidateSlots(rsnap[w], FromUTC(o), ToUTC(o))
    IN
    /\ pc[w] = "bookings"
    /\ Derived(w, RemoveBooked(c.slots, bookings, booked))
    /\ UNCHANGED <<store, op, out, rsnap, upd, idx, pend, locks, newID, history>>

\* the id gen_random_uuid() gives the row
FreshBookingId ==
    CHOOSE i \in BookingIds :
        /\ i \notin DOMAIN bookings \cup UNION {{p.id : p \in pend[v]} : v \in Workers}
        /\ \A j \in BookingIds :
              j \notin DOMAIN bookings \cup UNION {{p.id : p \in pend[v]} : v \in Workers}
                  => i <= j

\* the bookings table refuses a row: it declares no constraint over user,
\* start and status, so it refuses none
UniqueViolation(bk, row) == FALSE

\* InsertBooking in the transaction
Insert(w) ==
    /\ pc[w] = "insert"
    /\ ~UniqueViolation(bookings, Booking(op[w].user, op[w].from, op[w].to, "confirmed"))
    /\ pend' = [pend EXCEPT ![w] =
                  {[id |-> FreshBookingId,
                    row |-> Booking(op[w].user, op[w].from, op[w].to, "confirmed")]}]
    /\ newID' = [newID EXCEPT ![w] = FreshBookingId]
    /\ pc' = [pc EXCEPT ![w] = "commit"]
    /\ UNCHANGED <<store, op, res, slots, out, rsnap, upd, idx, locks, history>>

\* Committed as it would be with an upsert on (user, start): a row of the
\* user at that start is set to confirmed again instead of a new row
CommittedByUpsert(bk, rows) ==
    [i \in DOMAIN bk \cup {p.id : p \in {q \in rows :
                                \A k \in DOMAIN bk :
                                    \/ bk[k].UserID # q.row.UserID
                                    \/ bk[k].StartAtUTC # q.row.StartAtUTC}} |->
        IF i \in DOMAIN bk
        THEN IF \E q \in rows : /\ bk[i].UserID = q.row.UserID
                                /\ bk[i].StartAtUTC = q.row.StartAtUTC
             THEN [bk[i] EXCEPT !.Status = "confirmed"]
             ELSE bk[i]
        ELSE (CHOOSE p \in rows : p.id = i).row]

\* the table after the transaction's rows are committed
Committed(bk, rows) ==
    [i \in DOMAIN bk \cup {p.id : p \in rows} |->
        IF i \in DOMAIN bk THEN bk[i] ELSE (CHOOSE p \in rows : p.id = i).row]

\* RolledBack as it would be if the rows had been inserted on the pool
RolledBackKeepsRows(bk, rows) ==
    [i \in DOMAIN bk \cup {p.id : p \in rows} |->
        IF i \in DOMAIN bk THEN bk[i] ELSE (CHOOSE p \in rows : p.id = i).row]

\* the table after the transaction's rows are rolled back
RolledBack(bk, rows) == bk

\* trx.Commit
Commit(w) ==
    /\ pc[w] = "commit"
    /\ bookings' = Committed(bookings, pend[w])
    /\ made' = [made EXCEPT ![w] = {p.id : p \in pend[w]}]
    /\ pend' = [pend EXCEPT ![w] = {}]
    /\ locks' = [locks EXCEPT ![w] = {}]
    /\ pc' = [pc EXCEPT ![w] = "idle"]
    /\ res' = [res EXCEPT ![w] = "ok"]
    /\ writes' = writes + 1
    /\ UNCHANGED <<rules, stamps, apiKeys, op, slots, out, rsnap, upd, idx, newID, pre, cancelOk, issued,
                   calls, fails>>

\* the deferred trx.Rollback of a CreateBooking that returns an error
Rollback(w) ==
    /\ pc[w] = "rollback"
    /\ bookings' = RolledBack(bookings, pend[w])
    /\ made' = [made EXCEPT ![w] = DOMAIN bookings' \ DOMAIN bookings]
    /\ pend' = [pend EXCEPT ![w] = {}]
    /\ locks' = [locks EXCEPT ![w] = {}]
    /\ pc' = [pc EXCEPT ![w] = "idle"]
    /\ writes' = IF bookings' = bookings THEN writes ELSE writes + 1
    /\ UNCHANGED <<rules, stamps, apiKeys, op, res, slots, out, rsnap, upd, idx, newID, pre, cancelOk, issued,
                   calls, fails>>

\* --- CancelBooking
\* GetBookingStatus as it would be without the mapping of pgx.ErrNoRows: the
\* driver's error is returned as it is
GetBookingStatusRawError(w) ==
    LET id == op[w].id IN
    /\ pc[w] = "status"
    /\ IF id \notin DOMAIN bookings
       THEN /\ res' = [res EXCEPT ![w] = "no rows in result set"]
            /\ pc' = [pc EXCEPT ![w] = "idle"]
       ELSE IF bookings[id].Status = "cancelled"
       THEN /\ res' = [res EXCEPT ![w] = "already cancelled"]
            /\ pc' = [pc EXCEPT ![w] = "idle"]
       ELSE /\ pc' = [pc EXCEPT ![w] = "cancel"]
            /\ UNCHANGED res
    /\ UNCHANGED <<store, op, slots, out, rsnap, upd, idx, pend, locks, newID, history>>

\* GetBookingStatus on the pool
GetBookingStatus(w) ==
    LET id == op[w].id IN
    /\ pc[w] = "status"
    /\ IF id \notin DOMAIN bookings
       THEN /\ res' = [res EXCEPT ![w] = "booking not found"]
            /\ pc' = [pc EXCEPT ![w] = "idle"]
       ELSE IF bookings[id].Status = "cancelled"
       THEN /\ res' = [res EXCEPT ![w] = "already cancelled"]
            /\ pc' = [pc EXCEPT ![w] = "idle"]
       ELSE /\ pc' = [pc EXCEPT ![w] = "cancel"]
            /\ UNCHANGED res
    /\ UNCHANGED <<store, op, slots, out, rsnap, upd, idx, pend, locks, newID, history>>

\* Cancelled as it would be with the status misspelt in the UPDATE
CancelledMisspelt(bk, id) ==
    [i \in DOMAIN bk |->
        IF i \in {k \in DOMAIN bk : k = id /\ bk[k].Status # "cancelled"}
        THEN [bk[i] EXCEPT !.Status = "canceled"]
        ELSE bk[i]]

\* the table after the UPDATE of BookingRepo.CancelBooking
Cancelled(bk, id) ==
    [i \in DOMAIN bk |->
        IF i \in CancelBookingRows(bk, id) THEN [bk[i] EXCEPT !.Status = "cancelled"]
        ELSE bk[i]]

\* BookingRepo.CancelBooking on the pool: waits for a row a transaction has
\* locked; no row changed is "booking not found"
CancelBooking(w) ==
    LET rows == CancelBookingRows(bookings, op[w].id) IN
    /\ pc[w] = "cancel"
    /\ rows \cap LockedByOthers(w) = {}
    /\ bookings' = Cancelled(bookings, op[w].id)
    /\ IF rows = {}
       THEN /\ res' = [res EXCEPT ![w] = "booking not found"]
            /\ UNCHANGED cancelOk
       ELSE /\ res' = [res EXCEPT ![w] = "ok"]
            /\ cancelOk' = cancelOk \cup {op[w].id}
    /\ pc' = [pc EXCEPT ![w] = "idle"]
    /\ writes' = IF rows = {} THEN writes ELSE writes + 1
    /\ UNCHANGED <<rules, stamps, apiKeys, op, slots, out, rsnap, upd, idx, pend, locks, newID,
                   made, pre, issued, calls, fails>>

\* --- SetAvailability
\* time.Now() of a statement that writes a rule: the clock has moved on with
\* every write
Now == writes + 1

\* the availability_rules table refuses a row: it declares no constraint
\* over the weekday and the slot length, so it refuses none
RuleRefused(row) == FALSE

\* InsertRule as it would be if the batch were inserted in a transaction:
\* when a rule fails validation the rows inserted before it are rolled back
InsertRuleAtomic(w) ==
    LET i == idx[w]
        r == Owned(op[w].batch[i], op[w].user)
        last == i = Len(op[w].batch)
        mine == {out[w][k] : k \in DOMAIN out[w]}
    IN
    /\ pc[w] = "insertRule"
    /\ IF validateAvailabilityRule(r) # NoErr
       THEN /\ res' = [res EXCEPT ![w] = validateAvailabilityRule(r)]
            /\ pc' = [pc EXCEPT ![w] = "idle"]
            /\ out' = [out EXCEPT ![w] = <<>>]
            /\ rules' = [k \in DOMAIN rules \ mine |-> rules[k]]
            /\ stamps' = [k \in DOMAIN rules \ mine |-> stamps[k]]
            /\ writes' = IF mine = {} THEN writes ELSE writes + 1
            /\ UNCHANGED idx
       ELSE /\ ~RuleRefused(r)
            /\ \E id \in RuleIds \ DOMAIN rules :
                 /\ rules' = [k \in DOMAIN rules \cup {id} |->
                                 IF k = id THEN r ELSE rules[k]]
                 /\ stamps' = [k \in DOMAIN rules \cup {id} |->
                                 IF k = id THEN [CreatedAt |-> Now, UpdatedAt |-> Now]
                                 ELSE stamps[k]]
                 /\ out' = [out EXCEPT ![w] = Append(@, id)]
            /\ idx' = [idx EXCEPT ![w] = i + 1]
            /\ pc' = [pc EXCEPT ![w] = IF last THEN "idle" ELSE "insertRule"]
            /\ res' = [res EXCEPT ![w] = IF last THEN "ok" ELSE ""]
            /\ writes' = writes + 1
    /\ UNCHANGED <<bookings, apiKeys, op, slots, rsnap, upd, pend, locks, newID,
                   made, pre, cancelOk, issued, calls, fails>>

\* one turn of the loop: rule i is validated and inserted under a new id
InsertRule(w) ==
    LET i == idx[w]
        r == Owned(op[w].batch[i], op[w].user)
        last == i = Len(op[w].batch)
    IN
    /\ pc[w] = "insertRule"
    /\ IF validateAvailabilityRule(r) # NoErr
       THEN /\ res' = [res EXCEPT ![w] = validateAvailabilityRule(r)]
            /\ pc' = [pc EXCEPT ![w] = "idle"]
            /\ out' = [out EXCEPT ![w] = <<>>]
            /\ UNCHANGED <<rules, stamps, idx, writes>>
       ELSE /\ ~RuleRefused(r)
            /\ \E id \in RuleIds \ DOMAIN rules :
                 /\ rules' = [k \in DOMAIN rules \cup {id} |->
                                 IF k = id THEN r ELSE rules[k]]
                 /\ stamps' = [k \in DOMAIN rules \cup {id} |->
                                 IF k = id THEN [CreatedAt |-> Now, UpdatedAt |-> Now]
                                 ELSE stamps[k]]
                 /\ out' = [out EXCEPT ![w] = Append(@, id)]
            /\ idx' = [idx EXCEPT ![w] = i + 1]
            /\ pc' = [pc EXCEPT ![w] = IF last THEN "idle" ELSE "insertRule"]
            /\ res' = [res EXCEPT ![w] = IF last THEN "ok" ELSE ""]
            /\ writes' = writes + 1
    /\ UNCHANGED <<bookings, apiKeys, op, slots, rsnap, upd, pend, locks, newID,
                   made, pre, cancelOk, issued, calls, fails>>

\* --- UpdateAvailability
\* the rule is fetched, a DayOfWeek of 0 takes the stored one, and the
\* result is validated
GetRule(w) ==
    LET found == GetAvailabilityRule(rules, op[w].user, op[w].id)
        rule  == op[w].batch[1]
        r     == IF rule.DayOfWeek = 0
                 THEN [rule EXCEPT !.DayOfWeek = rules[op[w].id].DayOfWeek]
                 ELSE rule
    IN
    /\ pc[w] = "getRule"
    /\ IF found = {}
       THEN /\ res' = [res EXCEPT ![w] = "no rows in result set"]
            /\ pc' = [pc EXCEPT ![w] = "idle"]
            /\ UNCHANGED upd
       ELSE IF validateAvailabilityRule(r) # NoErr
       THEN /\ res' = [res EXCEPT ![w] = validateAvailabilityRule(r)]
            /\ pc' = [pc EXCEPT ![w] = "idle"]
            /\ UNCHANGED upd
       ELSE /\ upd' = [upd EXCEPT ![w] = <<r>>]
            /\ pc' = [pc EXCEPT ![w] = "updateRule"]
            /\ UNCHANGED res
    /\ UNCHANGED <<store, op, slots, out, rsnap, idx, pend, locks, newID, history>>

\* UpdateRule as it would be if the UPDATE also set user_id, from the rule
\* the client sent
UpdateRuleSettingUser(w) ==
    LET found == GetAvailabilityRule(rules, op[w].user, op[w].id) IN
    /\ pc[w] = "updateRule"
    /\ IF found = {}
       THEN /\ res' = [res EXCEPT ![w] = "no rows in result set"]
            /\ pc' = [pc EXCEPT ![w] = "idle"]
            /\ UNCHANGED <<rules, stamps, writes>>
       ELSE /\ ~RuleRefused(upd[w][1])
            /\ rules' = [rules EXCEPT ![op[w].id] = upd[w][1]]
            /\ stamps' = [stamps EXCEPT ![op[w].id].UpdatedAt = Now]
            /\ pc' = [pc EXCEPT ![w] = "getUpdated"]
            /\ writes' = writes + 1
            /\ UNCHANGED res
    /\ UNCHANGED <<bookings, apiKeys, op, slots, out, rsnap, upd, idx, pend, locks, newID,
                   made, pre, cancelOk, issued, calls, fails>>

\* UpdateRule as it would be if the UPDATE also set created_at
UpdateRuleStampingCreated(w) ==
    LET found == GetAvailabilityRule(rules, op[w].user, op[w].id) IN
    /\ pc[w] = "updateRule"
    /\ IF found = {}
       THEN /\ res' = [res EXCEPT ![w] = "no rows in result set"]
            /\ pc' = [pc EXCEPT ![w] = "idle"]
            /\ UNCHANGED <<rules, stamps, writes>>
       ELSE /\ ~RuleRefused(upd[w][1])
            /\ rules' = [rules EXCEPT ![op[w].id] = Owned(upd[w][1], @.UserID)]
            /\ stamps' = [stamps EXCEPT ![op[w].id] = [CreatedAt |-> Now, UpdatedAt |-> Now]]
            /\ pc' = [pc EXCEPT ![w] = "getUpdated"]
            /\ writes' = writes + 1
            /\ UNCHANGED res
    /\ UNCHANGED <<bookings, apiKeys, op, slots, out, rsnap, upd, idx, pend, locks, newID,
                   made, pre, cancelOk, issued, calls, fails>>

\* AvailabilityRepo.UpdateAvailabilityRule: the row's user_id and created_at
\* stay
UpdateRule(w) ==
    LET found == GetAvailabilityRule(rules, op[w].user, op[w].id) IN
    /\ pc[w] = "updateRule"
    /\ IF found = {}
       THEN /\ res' = [res EXCEPT ![w] = "no rows in result set"]
            /\ pc' = [pc EXCEPT ![w] = "idle"]
            /\ UNCHANGED <<rules, stamps, writes>>
       ELSE /\ ~RuleRefused(upd[w][1])
            /\ rules' = [rules EXCEPT ![op[w].id] = Owned(upd[w][1], @.UserID)]
            /\ stamps' = [stamps EXCEPT ![op[w].id].UpdatedAt = Now]
            /\ pc' = [pc EXCEPT ![w] = "getUpdated"]
            /\ writes' = writes + 1
            /\ UNCHANGED res
    /\ UNCHANGED <<bookings, apiKeys, op, slots, out, rsnap, upd, idx, pend, locks, newID,
                   made, pre, cancelOk, issued, calls, fails>>

\* the updated record is fetched and returned
GetUpdated(w) ==
    LET found == GetAvailabilityRule(rules, op[w].user, op[w].id) IN
    /\ pc[w] = "getUpdated"
    /\ IF found = {}
       THEN /\ res' = [res EXCEPT ![w] = "no rows in result set"]
            /\ UNCHANGED out
       ELSE /\ res' = [res EXCEPT ![w] = "ok"]
            /\ out' = [out EXCEPT ![w] = <<rules[op[w].id]>>]
    /\ pc' = [pc EXCEPT ![w] = "idle"]
    /\ UNCHANGED <<store, op, slots, rsnap, upd, idx, pend, locks, newID, history>>

\* --- ListAvailability, ListBookings
\* the orders in which ORDER BY start_at_utc can return the rows ids
ByStart(bk, ids) ==
    {s \in [1..Cardinality(ids) -> ids] :
        /\ \A i, j \in DOMAIN s : i # j => s[i] # s[j]
        /\ \A i, j \in DOMAIN s : i < j => bk[s[i]].StartAtUTC <= bk[s[j]].StartAtUTC}

List(w) ==
    LET o == op[w] IN
    /\ pc[w] = "list"
    /\ IF o.type = "ListAvailability"
       THEN out' = [out EXCEPT ![w] = ListAvailabilityRules(rules, o.user)]
       ELSE \E s \in ByStart(bookings, ListBookings(bookings, o.user, o.from, o.to,
                                                     o.id = 1)) :
               out' = [out EXCEPT ![w] = [k \in DOMAIN s |-> bookings[s[k]]]]
    /\ res' = [res EXCEPT ![w] = "ok"]
    /\ pc' = [pc EXCEPT ![w] = "idle"]
    /\ UNCHANGED <<store, op, slots, rsnap, upd, idx, pend, locks, newID, history>>

\* --- GenerateAPIKey, ValidateAPIKey
\* a request of the API key service
KeyRequest(type, email, password, apiKey) ==
    [type |-> type, email |-> email, password |-> password, apiKey |-> apiKey]

\* hashAPIKey: the SHA-256 of the key in hex; no two keys share a hash
hashAPIKey(apiKey) == "sha256(" \o apiKey \o ")"

\* "sk_" and uuid.New() of the n-th request: a key no other request draws
UUIDs == <<"sk_1", "sk_2", "sk_3", "sk_4">>
NewAPIKey(w) == UUIDs[pre[w].n]

\* models.APIKey without id and created_at; last_used_at 0 is NULL
APIKey(email, keyHash) == [Email |-> email, KeyHash |-> keyHash, LastUsedAt |-> 0]

\* SELECT ... FROM api_keys WHERE email = $1
GetAPIKeyByEmail(table, email) == {i \in DOMAIN table : table[i].Email = email}

\* SELECT ... FROM api_keys WHERE key_hash = $1
GetAPIKeyByHash(table, keyHash) == {i \in DOMAIN table : table[i].KeyHash = keyHash}

\* the table's UNIQUE constraints refuse the row id with this email and hash
KeyUniqueViolation(table, id, email, keyHash) ==
    \E i \in DOMAIN table \ {id} :
        table[i].Email = email \/ table[i].KeyHash = keyHash

\* the key the request has written is the key it returns
Returned(keys, apiKey) ==
    [i \in DOMAIN keys |->
        IF keys[i].Key = apiKey THEN [keys[i] EXCEPT !.Returned = TRUE] ELSE keys[i]]

\* both calls check their argument before any statement
KeyRequestChecked(w) ==
    LET o == op[w]
        err == IF o.type = "GenerateAPIKey"
               THEN IF o.email = "" \/ o.password = ""
                    THEN "email and password are required" ELSE ""
               ELSE IF o.apiKey = "" THEN "API key is required" ELSE ""
    IN
    /\ pc[w] = "keyRequest"
    /\ IF err # ""
       THEN /\ res' = [res EXCEPT ![w] = err]
            /\ pc' = [pc EXCEPT ![w] = "idle"]
       ELSE /\ pc' = [pc EXCEPT ![w] =
                        IF o.type = "GenerateAPIKey" THEN "keyByEmail" ELSE "keyByHash"]
            /\ UNCHANGED res
    /\ UNCHANGED <<store, op, slots, out, rsnap, upd, idx, pend, locks, newID, history>>

\* GetAPIKeyByEmail on the pool: existing is nil when no row has the email
KeyByEmail(w) ==
    /\ pc[w] = "keyByEmail"
    /\ pc' = [pc EXCEPT ![w] =
                IF GetAPIKeyByEmail(apiKeys, op[w].email) # {} THEN "updateKey"
                ELSE "createKey"]
    /\ UNCHANGED <<store, op, res, slots, out, rsnap, upd, idx, pend, locks, newID,
                   history>>

\* UpdateAPIKeyHash on the pool: the row of the email gets the new hash
UpdateKey(w) ==
    LET keyHash == hashAPIKey(NewAPIKey(w))
        rows == GetAPIKeyByEmail(apiKeys, op[w].email)
        refused == \E i \in rows : KeyUniqueViolation(apiKeys, i, op[w].email, keyHash)
    IN
    /\ pc[w] = "updateKey"
    /\ IF refused
       THEN /\ res' = [res EXCEPT ![w] = "failed to update API key"]
            /\ pc' = [pc EXCEPT ![w] = "idle"]
            /\ UNCHANGED <<apiKeys, issued, writes>>
       ELSE /\ apiKeys' = [i \in DOMAIN apiKeys |->
                             IF i \in rows THEN [apiKeys[i] EXCEPT !.KeyHash = keyHash]
                             ELSE apiKeys[i]]
            /\ issued' = IF rows = {} THEN issued
                         ELSE Append(issued, [Email |-> op[w].email,
                                              Key |-> NewAPIKey(w),
                                              Returned |-> FALSE])
            /\ writes' = IF rows = {} THEN writes ELSE writes + 1
            /\ pc' = [pc EXCEPT ![w] = "fetchKey"]
            /\ UNCHANGED res
    /\ UNCHANGED <<rules, stamps, bookings, op, slots, out, rsnap, upd, idx, pend,
                   locks, newID, made, pre, cancelOk, calls, fails>>

\* GetAPIKeyByEmail after the update; the call returns its key and the row
FetchKey(w) ==
    LET rows == GetAPIKeyByEmail(apiKeys, op[w].email) IN
    /\ pc[w] = "fetchKey"
    /\ out' = [out EXCEPT ![w] = <<NewAPIKey(w)>>]
    /\ rsnap' = [rsnap EXCEPT ![w] = [k \in 1..Cardinality(rows) |->
                                        apiKeys[Ascending(rows)[k]]]]
    /\ issued' = Returned(issued, NewAPIKey(w))
    /\ res' = [res EXCEPT ![w] = "ok"]
    /\ pc' = [pc EXCEPT ![w] = "idle"]
    /\ UNCHANGED <<store, op, slots, upd, idx, pend, locks, newID,
                   made, pre, cancelOk, calls, fails, writes>>

\* CreateAPIKey on the pool, on a table without its UNIQUE constraints
CreateKeyUnchecked(w) ==
    LET keyHash == hashAPIKey(NewAPIKey(w))
        id == Cardinality(DOMAIN apiKeys) + 1
    IN
    /\ pc[w] = "createKey"
    /\ apiKeys' = [i \in DOMAIN apiKeys \cup {id} |->
                     IF i = id THEN APIKey(op[w].email, keyHash) ELSE apiKeys[i]]
    /\ issued' = Append(issued, [Email |-> op[w].email, Key |-> NewAPIKey(w),
                                 Returned |-> TRUE])
    /\ writes' = writes + 1
    /\ out' = [out EXCEPT ![w] = <<NewAPIKey(w)>>]
    /\ rsnap' = [rsnap EXCEPT ![w] = <<APIKey(op[w].email, keyHash)>>]
    /\ res' = [res EXCEPT ![w] = "ok"]
    /\ pc' = [pc EXCEPT ![w] = "idle"]
    /\ UNCHANGED <<rules, stamps, bookings, op, slots, upd, idx, pend,
                   locks, newID, made, pre, cancelOk, calls, fails>>

\* CreateAPIKey on the pool: INSERT ... RETURNING, refused when a row has the
\* email or the hash; the call returns its key and the row
CreateKey(w) ==
    LET keyHash == hashAPIKey(NewAPIKey(w))
        id == Cardinality(DOMAIN apiKeys) + 1
    IN
    /\ pc[w] = "createKey"
    /\ IF KeyUniqueViolation(apiKeys, id, op[w].email, keyHash)
       THEN /\ res' = [res EXCEPT ![w] = "failed to create API key"]
            /\ UNCHANGED <<apiKeys, issued, writes, out, rsnap>>
       ELSE /\ apiKeys' = [i \in DOMAIN apiKeys \cup {id} |->
                             IF i = id THEN APIKey(op[w].email, keyHash)
                             ELSE apiKeys[i]]
            /\ issued' = Append(issued, [Email |-> op[w].email, Key |-> NewAPIKey(w),
                                         Returned |-> TRUE])
            /\ writes' = writes + 1
            /\ out' = [out EXCEPT ![w] = <<NewAPIKey(w)>>]
            /\ rsnap' = [rsnap EXCEPT ![w] = <<APIKey(op[w].email, keyHash)>>]
            /\ res' = [res EXCEPT ![w] = "ok"]
    /\ pc' = [pc EXCEPT ![w] = "idle"]
    /\ UNCHANGED <<rules, stamps, bookings, op, slots, upd, idx, pend,
                   locks, newID, made, pre, cancelOk, calls, fails>>

\* GetAPIKeyByHash on the pool: no row, or any error of the store, is
\* "invalid API key"
KeyByHash(w) ==
    LET rows == GetAPIKeyByHash(apiKeys, hashAPIKey(op[w].apiKey)) IN
    /\ pc[w] = "keyByHash"
    /\ \/ /\ rows # {}
          /\ rsnap' = [rsnap EXCEPT ![w] = [k \in 1..Cardinality(rows) |->
                                              apiKeys[Ascending(rows)[k]]]]
          /\ pc' = [pc EXCEPT ![w] = "lastUsed"]
          /\ UNCHANGED <<res, fails>>
       \/ /\ rows = {} \/ fails < MaxFailures
          /\ res' = [res EXCEPT ![w] = "invalid API key"]
          /\ pc' = [pc EXCEPT ![w] = "idle"]
          /\ fails' = IF rows = {} THEN fails ELSE fails + 1
          /\ UNCHANGED rsnap
    /\ UNCHANGED <<store, op, slots, out, upd, idx, pend, locks, newID,
                   made, pre, cancelOk, issued, calls, writes>>

\* UpdateLastUsed on the pool, its error dropped; the call returns the row
\* read before it
UpdateLastUsed(w) ==
    LET rows == GetAPIKeyByHash(apiKeys, hashAPIKey(op[w].apiKey)) IN
    /\ pc[w] = "lastUsed"
    /\ \/ /\ apiKeys' = [i \in DOMAIN apiKeys |->
                           IF i \in rows THEN [apiKeys[i] EXCEPT !.LastUsedAt = Now]
                           ELSE apiKeys[i]]
          /\ writes' = IF rows = {} THEN writes ELSE writes + 1
          /\ UNCHANGED fails
       \/ /\ fails < MaxFailures
          /\ fails' = fails + 1
          /\ UNCHANGED <<apiKeys, writes>>
    /\ out' = [out EXCEPT ![w] = rsnap[w]]
    /\ res' = [res EXCEPT ![w] = "ok"]
    /\ pc' = [pc EXCEPT ![w] = "idle"]
    /\ UNCHANGED <<rules, stamps, bookings, op, slots, rsnap, upd, idx, pend, locks,
                   newID, made, pre, cancelOk, issued, calls>>

\* --- the store fails
\* the statement worker w executes returns an error (the connection is lost,
\* the context is cancelled): the handler returns it, a transaction that is
\* open is rolled back
StatementFails(w) ==
    /\ fails < MaxFailures
    /\ pc[w] \notin {"idle", "hung", "rollback", "keyRequest", "keyByHash", "lastUsed"}
    /\ fails' = fails + 1
    /\ res' = [res EXCEPT ![w] = "storage error"]
    /\ pc' = [pc EXCEPT ![w] =
                IF op[w].type = "CreateBooking" /\ pc[w] # "begin" THEN "rollback"
                ELSE "idle"]
    /\ UNCHANGED <<store, op, slots, out, rsnap, upd, idx, pend, locks, newID,
                   made, pre, cancelOk, issued, calls, writes>>

Next ==
    \E w \in Workers :
        \/ Call(w)
        \/ Begin(w)
        \/ Check(w)
        \/ ListRules(w)
        \/ ListBooked(w)
        \/ Insert(w)
        \/ Commit(w)
        \/ Rollback(w)
        \/ GetBookingStatus(w)
        \/ CancelBooking(w)
        \/ InsertRule(w)
        \/ GetRule(w)
        \/ UpdateRule(w)
        \/ GetUpdated(w)
        \/ List(w)
        \/ StatementFails(w)

Spec == Init /\ [][Next]_vars

\* --- the rule store alone: the clients that manage the rules
RuleCall(w) == \E o \in RuleInputs : Serve(w, o)

RuleNext ==
    \E w \in Workers :
        \/ RuleCall(w)
        \/ InsertRule(w)
        \/ GetRule(w)
        \/ UpdateRule(w)
        \/ GetUpdated(w)
        \/ List(w)
        \/ StatementFails(w)

RuleInit == Start(RuleStores)

RuleSpec == RuleInit /\ [][RuleNext]_vars

\* --- the slot derivation: the clients that look for slots, over rule tables
\* of every kind, while bookings are cancelled
DeriveInit == Start(DeriveStores)

DeriveCall(w) == \E o \in DeriveInputs : Serve(w, o)

DeriveNext ==
    \E w \in Workers :
        \/ DeriveCall(w)
        \/ ListRules(w)
        \/ ListBooked(w)
        \/ GetBookingStatus(w)
        \/ CancelBooking(w)
        \/ StatementFails(w)

DeriveSpec == DeriveInit /\ [][DeriveNext]_vars

\* --- the booking path: the clients that book slots and look for slots
BookInit == Start(BookStores)

BookCall(w) == \E o \in BookInputs : Serve(w, o)

BookNext ==
    \E w \in Workers :
        \/ BookCall(w)
        \/ Begin(w)
        \/ Check(w)
        \/ ListRules(w)
        \/ ListBooked(w)
        \/ Insert(w)
        \/ Commit(w)
        \/ Rollback(w)
        \/ StatementFails(w)

BookSpec == BookInit /\ [][BookNext]_vars

\* --- the listing of bookings, while bookings are cancelled
ListingInit == Start(ListingStores)

ListingCall(w) == \E o \in ListingInputs : Serve(w, o)

ListingNext ==
    \E w \in Workers :
        \/ ListingCall(w)
        \/ List(w)
        \/ GetBookingStatus(w)
        \/ CancelBooking(w)
        \/ StatementFails(w)

ListingSpec == ListingInit /\ [][ListingNext]_vars

\* --- the calendars of two users: the clients that book, cancel and look
\* for slots, on stores as earlier requests have left them: a booking of
\* another user at the same start, a cancelled booking, a confirmed booking, two
\* rules with different slot lengths on one day, and two confirmed bookings
\* at one start, which two concurrent CreateBooking calls leave
UsersInputs ==
    { Request("CreateBooking", "u1", At(1, 9, 0), At(1, 9, 30), 0, <<>>),
      Request("CreateBooking", "u1", At(1, 9, 30), At(1, 10, 0), 0, <<>>),
      Request("CreateBooking", "u1", At(1, 9, 0), At(1, 11, 0), 0, <<>>),
      Request("CreateBooking", "u2", At(1, 9, 0), At(1, 9, 30), 0, <<>>),
      Request("GetSlots", "u1", At(1, 0, 0), At(2, 0, 0), 0, <<>>),
      Request("CancelBooking", "", 0, 0, 1, <<>>) }

UsersStores ==
    { [rules |-> <<Owned(RMon30, "u1"), Owned(RMon30, "u2")>>,
       bookings |-> <<Booking("u2", At(1, 9, 0), At(1, 9, 30), "confirmed")>>,
       cancelOk |-> {}],
      [rules |-> <<Owned(RMon30, "u1")>>,
       bookings |-> <<Booking("u1", At(1, 9, 0), At(1, 9, 30), "cancelled")>>,
       cancelOk |-> {1}],
      [rules |-> <<Owned(RMon30, "u1")>>,
       bookings |-> <<Booking("u1", At(1, 9, 0), At(1, 9, 30), "confirmed")>>,
       cancelOk |-> {}],
      [rules |-> <<Owned(RMon30, "u1"), Owned(RMon120, "u1")>>,
       bookings |-> <<>>, cancelOk |-> {}],
      [rules |-> <<Owned(RMon30, "u1")>>,
       bookings |-> <<Booking("u1", At(1, 9, 0), At(1, 9, 30), "confirmed"),
                      Booking("u1", At(1, 9, 0), At(1, 9, 30), "confirmed")>>,
       cancelOk |-> {}] }

UsersInit == Start(UsersStores)

UsersCall(w) == \E o \in UsersInputs : Serve(w, o)

UsersNext ==
    \E w \in Workers :
        \/ UsersCall(w)
        \/ Begin(w)
        \/ Check(w)
        \/ ListRules(w)
        \/ ListBooked(w)
        \/ Insert(w)
        \/ Commit(w)
        \/ Rollback(w)
        \/ GetBookingStatus(w)
        \/ CancelBooking(w)
        \/ StatementFails(w)

UsersSpec == UsersInit /\ [][UsersNext]_vars

\* --- the slot lengths: the clients that set and update rules with a slot
\* length of zero or less, and the clients that look for slots on a Monday
\* and on a Tuesday
TermInputs ==
    { Request("SetAvailability", "u1", 0, 0, 0, <<r>>) : r \in {RZeroLen, RNegLen, RMon30} }
    \cup { Request("UpdateAvailability", "u1", 0, 0, 1, <<RZeroLen>>),
            Request("GetSlots", "u1", At(1, 0, 0), At(2, 0, 0), 0, <<>>),
            Request("GetSlots", "u1", At(2, 0, 0), At(2, 12, 0), 0, <<>>) }

TermStores ==
    { [rules |-> <<>>, bookings |-> <<>>, cancelOk |-> {}],
      [rules |-> <<Owned(RMon30, "u1")>>, bookings |-> <<>>, cancelOk |-> {}] }

TermInit == Start(TermStores)

TermCall(w) == \E o \in TermInputs : Serve(w, o)

TermNext ==
    \E w \in Workers :
        \/ TermCall(w)
        \/ InsertRule(w)
        \/ GetRule(w)
        \/ UpdateRule(w)
        \/ GetUpdated(w)
        \/ ListRules(w)
        \/ ListBooked(w)
        \/ StatementFails(w)

TermSpec == TermInit /\ [][TermNext]_vars

\* --- the updates of rules: the clients that update a rule, with and
\* without a weekday, a rule of another user and a rule that does not
\* validate, and that list the rules; on stores with a rule of another
\* user, a booking made from the rule, two rules of the user, a rule of Sunday
EditInputs ==
    { Request("UpdateAvailability", "u1", 0, 0, 1, <<r>>) :
        r \in {RRetitled, RTue60, RBackwards} }
    \cup { Request("UpdateAvailability", "u1", 0, 0, 2, <<RTue60>>),
            Request("ListAvailability", "u1", 0, 0, 0, <<>>) }

EditStores ==
    { [rules |-> <<Owned(RMon30, "u1"), Owned(RMon30, "u2")>>,
       bookings |-> <<Booking("u1", At(1, 9, 0), At(1, 9, 30), "confirmed")>>,
       cancelOk |-> {}],
      [rules |-> <<Owned(RMon30, "u1"), Owned(RMon120, "u1")>>,
       bookings |-> <<>>, cancelOk |-> {}],
      [rules |-> <<Owned(RSun30, "u1")>>, bookings |-> <<>>, cancelOk |-> {}] }

EditInit == Start(EditStores)

EditCall(w) == \E o \in EditInputs : Serve(w, o)

EditNext ==
    \E w \in Workers :
        \/ EditCall(w)
        \/ GetRule(w)
        \/ UpdateRule(w)
        \/ GetUpdated(w)
        \/ List(w)
        \/ StatementFails(w)

EditSpec == EditInit /\ [][EditNext]_vars

\* --- the connection pool: the clients that book, on a pool of MaxConns
\* connections. A transaction holds the connection it was begun on until it
\* is committed or rolled back; a statement given the pool takes a free
\* connection for as long as it runs, and waits while there is none
MaxConns == 2

\* the Querier a statement is given: the call's transaction or the pool
Querier(statement) ==
    IF statement \in {"check", "insert", "commit", "rollback"} THEN "trx" ELSE "pool"

\* the transaction of w's CreateBooking is open
TxOpen(w) ==
    /\ op[w].type = "CreateBooking"
    /\ pc[w] \in {"check", "rules", "bookings", "insert", "commit", "rollback", "hung"}

FreeConns == MaxConns - Cardinality({v \in Workers : TxOpen(v)})

\* the statement w executes next has a connection to run on
Connected(w) == Querier(pc[w]) = "trx" \/ FreeConns > 0

PoolInputs ==
    { Request("CreateBooking", "u1", At(1, 9, 0), At(1, 9, 30), 0, <<>>),
      Request("CreateBooking", "u1", At(1, 9, 30), At(1, 10, 0), 0, <<>>),
      Request("CreateBooking", "u2", At(1, 9, 0), At(1, 9, 30), 0, <<>>),
      Request("GetSlots", "u1", At(1, 0, 0), At(2, 0, 0), 0, <<>>) }

PoolInit == Start(InitStores)

PoolCall(w) == \E o \in PoolInputs : Serve(w, o)

\* the statements of the handler worker w runs
PoolStep(w) ==
    /\ Connected(w)
    /\ \/ Begin(w)
       \/ Check(w)
       \/ ListRules(w)
       \/ ListBooked(w)
       \/ Insert(w)
       \/ Commit(w)
       \/ Rollback(w)

PoolNext ==
    \E w \in Workers :
        \/ PoolCall(w)
        \/ PoolStep(w)
        \/ StatementFails(w)

PoolSpec == PoolInit /\ [][PoolNext]_vars

\* a handler whose next statement can run does run it: the goroutine is
\* scheduled and the store answers. Nothing makes a client call, and nothing
\* makes a statement fail
PoolLiveSpec == PoolSpec /\ \A w \in Workers : WF_vars(PoolStep(w))

\* ------------------------------------------------- the API key service
\* GenerateAPIKey for two emails, without an email and without a password,
\* and ValidateAPIKey with no key, an old key and the key of the first request
Emails == {"a@example.com", "b@example.com"}

KeyInputs ==
    { KeyRequest("GenerateAPIKey", e, "secret", "") : e \in Emails \cup {""} }
    \cup { KeyRequest("GenerateAPIKey", "a@example.com", "", "") }
    \cup { KeyRequest("ValidateAPIKey", "", "", k) : k \in {"", "sk_0", UUIDs[1]} }

\* api_keys with no row, and with the row of a key issued before
KeyTables == { <<>>, <<APIKey("a@example.com", hashAPIKey("sk_0"))>> }

KeyInit ==
    StartWithKeys({[rules |-> <<>>, bookings |-> <<>>, cancelOk |-> {}]}, KeyTables)

KeyCall(w) == \E o \in KeyInputs : Serve(w, o)

KeyNext ==
    \E w \in Workers :
        \/ KeyCall(w)
        \/ KeyRequestChecked(w)
        \/ KeyByEmail(w)
        \/ UpdateKey(w)
        \/ FetchKey(w)
        \/ CreateKey(w)
        \/ KeyByHash(w)
        \/ UpdateLastUsed(w)
        \/ StatementFails(w)

KeySpec == KeyInit /\ [][KeyNext]_vars

\* =============================================================== claims
\* worker w has returned from a request of this type; res[w] is what it returned
Done(w, type) == pc[w] = "idle" /\ op[w].type = type

\* the confirmed bookings of a user that start at an instant
ConfirmedAt(userID, start) ==
    {i \in DOMAIN bookings : /\ bookings[i].UserID = userID
                             /\ bookings[i].Status = "confirmed"
                             /\ bookings[i].StartAtUTC = start}

\* C1: in every reachable state a user has at most one confirmed booking
\* for a given startAt.
C1_OneConfirmedPerStart ==
    \A i, j \in DOMAIN bookings :
        ( /\ i # j
          /\ bookings[i].UserID = bookings[j].UserID
          /\ bookings[i].Status = "confirmed"
          /\ bookings[j].Status = "confirmed" )
        => bookings[i].StartAtUTC # bookings[j].StartAtUTC

\* workers w and v have served the same CreateBooking request at the same
\* time, for a slot that was free and valid when each request came, with no
\* other request served meanwhile and no failure of the store
RacedForSlot(w, v) ==
    /\ w # v
    /\ Done(w, "CreateBooking") /\ Done(v, "CreateBooking")
    /\ op[w] = op[v]
    /\ pre[w].seen = {pre[v].n} /\ pre[v].seen = {pre[w].n}
    /\ pre[w].valid /\ pre[w].free /\ pre[v].valid /\ pre[v].free
    /\ res[w] # "storage error" /\ res[v] # "storage error"

\* C2: of the concurrent CreateBooking calls for one free and valid slot,
\* exactly one succeeds and every other one returns "slot already booked".
C2_ExactlyOneSucceeds ==
    \A w, v \in Workers :
        RacedForSlot(w, v) =>
            \/ res[w] = "ok" /\ res[v] = "slot already booked"
            \/ res[v] = "ok" /\ res[w] = "slot already booked"

\* the transaction of w's CreateBooking is open and its lookup has returned
PastLookup(w) ==
    /\ op[w].type = "CreateBooking"
    /\ pc[w] \in {"rules", "bookings", "insert", "commit", "rollback"}

\* C3: the lookup of CreateBooking locks the key (userId, start) also when
\* no booking is there: two calls for one key are never both past their
\* lookup with their transactions open.
C3_LookupSerialized ==
    \A w, v \in Workers :
        ( /\ w # v
          /\ op[w].user = op[v].user
          /\ op[w].from = op[v].from )
        => ~(PastLookup(w) /\ PastLookup(v))

\* C4: no slot GenerateAvailableSlots returns starts at the startAt of a
\* confirmed booking the user has when the bookings are read.
C4_NoBookedSlotReturned ==
    [][\A w \in Workers :
          ( /\ op[w].type = "GetSlots"
            /\ pc[w] = "bookings"
            /\ pc'[w] = "idle"
            /\ res'[w] = "ok" )
          => \A k \in DOMAIN slots'[w] :
                ConfirmedAt(op[w].user, slots'[w][k].StartUTC) = {}]_vars

\* slot sl is a slot of rule r of user u: on a day of the rule's weekday,
\* inside the rule's window, a whole number of slot lengths after its start
\* and one slot length long
SlotOfRule(sl, r, u) ==
    LET day  == Truncate(sl.StartUTC)
        st   == day + TimeParse1504(r.StartTime) * Minute
        en   == day + TimeParse1504(r.EndTime) * Minute
        len  == r.SlotLengthMins * Minute
    IN  /\ r.UserID = u
        /\ r.Available
        /\ Weekday(sl.StartUTC) = r.DayOfWeek
        /\ r.SlotLengthMins > 0
        /\ sl.EndUTC - sl.StartUTC = len
        /\ st <= sl.StartUTC /\ sl.EndUTC <= en
        /\ (sl.StartUTC - st) % len = 0

\* C5: every slot GenerateAvailableSlots returns is a slot of an available
\* rule of the user, among the rules the call has read.
C5_SlotsAreRuleSlots ==
    \A w \in Workers :
        \A k \in DOMAIN slots[w] :
            \E i \in DOMAIN rsnap[w] : SlotOfRule(slots[w][k], rsnap[w][i], op[w].user)

C5_Witness ==
    \E w \in Workers :
        /\ Done(w, "GetSlots") /\ res[w] = "ok"
        /\ Len(slots[w]) >= 2
        /\ Len(rsnap[w]) >= 1

\* the slots worker w has derived hold the requested one
RequestedSlotDerived(w) ==
    \E k \in DOMAIN slots[w] :
        slots[w][k].StartUTC = op[w].from /\ slots[w][k].EndUTC = op[w].to

\* C6 as stated: a CreateBooking served alone, that came when no derived
\* slot of the user had the requested start and end, returns "slot not
\* available" (unless the store fails) and writes no booking.
C6_AsStated ==
    \A w \in Workers :
        ( /\ Done(w, "CreateBooking")
          /\ pre[w].seen = {}
          /\ ~pre[w].valid
          /\ res[w] # "storage error" )
        => res[w] = "slot not available" /\ made[w] = {}

\* C6, amended: a CreateBooking whose lookup found no confirmed booking at
\* the requested start, and whose slot derivation returned no slot with the
\* requested start and end, returns "slot not available" and writes no
\* booking; it goes on to insert only when such a slot was derived.
C6_NoSlotNoBooking ==
    \A w \in Workers :
        op[w].type = "CreateBooking" =>
            /\ pc[w] \in {"insert", "commit"} => RequestedSlotDerived(w)
            /\ ( /\ pc[w] = "idle"
                 /\ ~RequestedSlotDerived(w)
                 /\ res[w] \notin {"slot already booked", "storage error",
                                   ErrInvalidTime, ErrEndBeforeStart} )
               => res[w] = "slot not available" /\ made[w] = {}

C6_Witness ==
    \E w \in Workers :
        /\ Done(w, "CreateBooking")
        /\ res[w] = "slot not available"
        /\ op[w].from = At(1, 9, 15)
        /\ Len(slots[w]) >= 1
        /\ pre[w].free

\* C7: a CreateBooking whose lookup runs while the user has a confirmed
\* booking at the requested start returns "slot already booked" (unless the
\* lookup itself fails), before any slot is derived, and writes no booking.
C7_ConflictBeforeValidation ==
    /\ [][\A w \in Workers :
            ( /\ pc[w] = "check"
              /\ pc'[w] # "check"
              /\ res'[w] # "storage error"
              /\ ConfirmedAt(op[w].user, op[w].from) # {} )
            => /\ res'[w] = "slot already booked"
               /\ pc'[w] = "rollback"
               /\ slots'[w] = <<>>
               /\ pend'[w] = {}
               /\ bookings' = bookings]_vars
    /\ [](\A w \in Workers :
            Done(w, "CreateBooking") /\ res[w] = "slot already booked"
                => made[w] = {} /\ newID[w] = 0)

\* a conflict for a request whose end is the end of no slot of the rules
C7_Witness ==
    \E w \in Workers :
        /\ Done(w, "CreateBooking")
        /\ res[w] = "slot already booked"
        /\ LET c == CandidateSlots(ListAvailabilityRules(rules, op[w].user),
                                   FromUTC(op[w]), ToUTC(op[w]))
           IN  /\ c.err = NoErr
               /\ \A k \in DOMAIN c.slots : c.slots[k].EndUTC # op[w].to

\* C8: the bookings change in their user, start or end, or in number, only
\* when a CreateBooking commits and returns success, and then by the one
\* confirmed booking requested; a call that has returned an error has
\* written nothing, and rows of an open transaction are in no committed row.
C8_AllOrNothing ==
    /\ [][\/ /\ DOMAIN bookings' = DOMAIN bookings
             /\ \A i \in DOMAIN bookings :
                   [bookings'[i] EXCEPT !.Status = ""] = [bookings[i] EXCEPT !.Status = ""]
          \/ \E w \in Workers :
                /\ op[w].type = "CreateBooking"
                /\ pc[w] = "commit" /\ pc'[w] = "idle" /\ res'[w] = "ok"
                /\ newID[w] \notin DOMAIN bookings
                /\ DOMAIN bookings' = DOMAIN bookings \cup {newID[w]}
                /\ bookings'[newID[w]] =
                      Booking(op[w].user, op[w].from, op[w].to, "confirmed")
                /\ \A i \in DOMAIN bookings : bookings'[i] = bookings[i]]_vars
    /\ [](\A w \in Workers :
            /\ Done(w, "CreateBooking") /\ res[w] # "ok" => made[w] = {}
            /\ Done(w, "CreateBooking") /\ res[w] = "ok" =>
                   made[w] = {newID[w]} /\ newID[w] \in DOMAIN bookings
            /\ \A p \in pend[w] : p.id \notin DOMAIN bookings)

\* the commit of a call failed after its insert: nothing of it is stored
C8_Witness ==
    \E w \in Workers :
        /\ Done(w, "CreateBooking")
        /\ res[w] = "storage error"
        /\ newID[w] # 0
        /\ newID[w] \notin DOMAIN bookings

\* C9: a CancelBooking that comes after a CancelBooking of the same id has
\* returned success returns "already cancelled" (unless the store fails),
\* never success.
C9_CancelOnce ==
    \A w \in Workers :
        op[w].type = "CancelBooking" /\ pre[w].afterOk =>
            /\ pc[w] # "cancel"
            /\ pc[w] = "idle" => res[w] \in {"already cancelled", "storage error"}

C9_Witness ==
    \E w \in Workers :
        /\ Done(w, "CancelBooking")
        /\ pre[w].afterOk
        /\ res[w] = "already cancelled"

\* C10: a booking is confirmed or cancelled, and a cancelled booking stays
\* cancelled in every step.
C10_CancelledIsTerminal ==
    /\ [](\A i \in DOMAIN bookings : bookings[i].Status \in {"confirmed", "cancelled"})
    /\ [][\A i \in DOMAIN bookings :
            bookings[i].Status = "cancelled" =>
                i \in DOMAIN bookings' /\ bookings'[i].Status = "cancelled"]_vars

\* a cancelled booking, and its slot booked again
C10_Witness ==
    \E i, j \in DOMAIN bookings :
        /\ bookings[i].Status = "cancelled"
        /\ bookings[j].Status = "confirmed"
        /\ bookings[j].UserID = bookings[i].UserID
        /\ bookings[j].StartAtUTC = bookings[i].StartAtUTC

\* C11: the status lookup of a CancelBooking for an id that no booking has
\* returns "booking not found" at once (unless the lookup itself fails), and
\* the step changes no booking.
C11_CancelMissingNotFound ==
    [][\A w \in Workers :
          ( /\ op[w].type = "CancelBooking"
            /\ pc[w] = "status"
            /\ pc'[w] # "status"
            /\ res'[w] # "storage error"
            /\ op[w].id \notin DOMAIN bookings )
          => /\ res'[w] = "booking not found"
             /\ pc'[w] = "idle"
             /\ bookings' = bookings]_vars

C11_Witness ==
    \E w \in Workers :
        /\ Done(w, "CancelBooking")
        /\ res[w] = "booking not found"
        /\ op[w].id \notin DOMAIN bookings
        /\ DOMAIN bookings # {}

\* workers w and v have served a CancelBooking of the same booking at the
\* same time; the booking was confirmed when each request came, no other
\* request was served meanwhile and the store did not fail
RacedToCancel(w, v) ==
    /\ w # v
    /\ Done(w, "CancelBooking") /\ Done(v, "CancelBooking")
    /\ op[w].id = op[v].id
    /\ pre[w].seen = {pre[v].n} /\ pre[v].seen = {pre[w].n}
    /\ pre[w].live /\ pre[v].live
    /\ res[w] # "storage error" /\ res[v] # "storage error"

\* C12: of the concurrent CancelBooking calls on one confirmed booking
\* exactly one returns success and every other one returns "already
\* cancelled" or "booking not found"; an UPDATE that changes no row returns
\* "booking not found"; and success is returned only by the step that turns
\* the booking from confirmed to cancelled.
C12_OneCancelWins ==
    /\ [](\A w, v \in Workers :
            RacedToCancel(w, v) =>
                \/ res[w] = "ok" /\ res[v] \in {"already cancelled", "booking not found"}
                \/ res[v] = "ok" /\ res[w] \in {"already cancelled", "booking not found"})
    /\ [][\A w \in Workers :
            ( /\ op[w].type = "CancelBooking"
              /\ pc[w] = "cancel"
              /\ pc'[w] # "cancel"
              /\ res'[w] # "storage error" )
            => IF op[w].id \in DOMAIN bookings /\ bookings[op[w].id].Status = "confirmed"
               THEN /\ res'[w] = "ok"
                    /\ bookings'[op[w].id].Status = "cancelled"
               ELSE /\ res'[w] = "booking not found"
                    /\ bookings' = bookings]_vars

\* the loser of a race found the booking confirmed and changed no row
C12_Witness ==
    \E w, v \in Workers :
        /\ RacedToCancel(w, v)
        /\ res[w] = "ok"
        /\ res[v] = "booking not found"

\* the rule's times of day are both well formed and the end is after the start
EndAfterStart(r) ==
    LET st == TimeParse1504(r.StartTime)
        en == TimeParse1504(r.EndTime)
    IN  st # ParseError /\ en # ParseError /\ en > st

\* C13: every stored rule has its end time after its start time. A
\* SetAvailability never gets past a rule of its batch whose end is at or
\* before its start: it returns "end_time must be after start_time" there
\* (unless the store fails); an UpdateAvailability sent such a rule returns
\* that error (or that the rule was not found) and never reaches its UPDATE.
C13_EndAfterStart ==
    /\ \A i \in DOMAIN rules : EndAfterStart(rules[i])
    /\ \A w \in Workers :
          /\ pc[w] = "updateRule" => EndAfterStart(upd[w][1])
          /\ ( /\ op[w].type = "UpdateAvailability"
               /\ ~EndAfterStart(op[w].batch[1]) )
             => /\ pc[w] \in {"getRule", "idle"}
                /\ pc[w] = "idle" =>
                      res[w] \in {ErrEndBeforeStart, "no rows in result set",
                                  "storage error"}
          /\ op[w].type = "SetAvailability" =>
                /\ \A k \in 1..Len(op[w].batch) :
                      k < idx[w] => EndAfterStart(op[w].batch[k])
                /\ ( /\ pc[w] = "idle"
                     /\ idx[w] <= Len(op[w].batch)
                     /\ res[w] # "storage error" )
                   => /\ ~EndAfterStart(op[w].batch[idx[w]])
                      /\ res[w] = ErrEndBeforeStart

\* a batch rejected for equal times, and an update rejected for an end
\* before the start, with rules stored
C13_Witness ==
    \E w, v \in Workers :
        /\ Done(w, "SetAvailability") /\ res[w] = ErrEndBeforeStart
        /\ op[w].batch = <<REqual>>
        /\ Done(v, "UpdateAvailability") /\ res[v] = ErrEndBeforeStart
        /\ op[v].batch = <<RBackwards>>
        /\ DOMAIN rules # {}

\* C14: every stored rule has a positive slot length and a weekday in 0..6.
C14_PositiveLengthValidDay ==
    \A i \in DOMAIN rules :
        /\ rules[i].SlotLengthMins > 0
        /\ rules[i].DayOfWeek \in 0..6

\* workers w and v have served the same GetSlots request, and no statement
\* has changed a table since either request came
SameSlotsRequest(w, v) ==
    /\ w # v
    /\ Done(w, "GetSlots") /\ Done(v, "GetSlots")
    /\ op[w] = op[v]
    /\ res[w] # "storage error" /\ res[v] # "storage error"
    /\ writes = pre[w].ver /\ writes = pre[v].ver

TiledSlots(r, d) ==
    LET st  == d + TimeParse1504(r.StartTime) * Minute
        en  == d + TimeParse1504(r.EndTime) * Minute
        len == r.SlotLengthMins * Minute
    IN  IF len <= 0 \/ en <= st THEN {}
        ELSE {Slot(st + j * len, st + (j + 1) * len) :
                 j \in {k \in 0..((en - st) \div len) : st + (k + 1) * len <= en}}

\* the days of the modelled week
WeekDays == {At(d, 0, 0) : d \in 0..6}

\* of the tiled slots of the available rules rs, exactly those that end
\* after from and start before to are among sls, each one whole
ExactlyTheOverlapping(sls, rs, from, to) ==
    \A d \in WeekDays : \A i \in DOMAIN rs :
        (rs[i].Available /\ Weekday(d) = rs[i].DayOfWeek) =>
            \A sl \in TiledSlots(rs[i], d) :
                (\E k \in DOMAIN sls : sls[k] = sl)
                    <=> (sl.EndUTC > from /\ sl.StartUTC < to)

\* C16: a tiled slot of an available rule is a candidate exactly when it
\* ends after the start of the window and starts before its end, and it is
\* a candidate whole; so for the candidates a call has built when it goes on
\* to read the bookings, and for the slots GetSlots returns to a user who
\* has no booking.
C16_WindowFilter ==
    \A w \in Workers :
        /\ pc[w] = "bookings" =>
              ExactlyTheOverlapping(
                  CandidateSlots(rsnap[w], FromUTC(op[w]), ToUTC(op[w])).slots,
                  rsnap[w], FromUTC(op[w]), ToUTC(op[w]))
        /\ ( /\ Done(w, "GetSlots") /\ res[w] = "ok"
             /\ \A i \in DOMAIN bookings : bookings[i].UserID # op[w].user )
           => ExactlyTheOverlapping(slots[w], rsnap[w], op[w].from, op[w].to)

\* a window inside a slot returns the slot whole, and a window that starts
\* where a slot ends does not return that slot
C16_Witness ==
    \E w, v \in Workers :
        /\ Done(w, "GetSlots") /\ res[w] = "ok"
        /\ op[w].from = At(1, 9, 15) /\ op[w].to = At(1, 9, 20)
        /\ slots[w] = <<Slot(At(1, 9, 0), At(1, 9, 30))>>
        /\ Done(v, "GetSlots") /\ res[v] = "ok"
        /\ op[v].from = At(1, 9, 30)
        /\ slots[v] = <<Slot(At(1, 9, 30), At(1, 10, 0))>>

\* rule r, available or not, tiles slot sl on the day of the slot
TiledBy(sl, r) ==
    /\ Weekday(sl.StartUTC) = r.DayOfWeek
    /\ sl \in TiledSlots(r, Truncate(sl.StartUTC))

\* the available rules among rs that tile slot sl
AvailableRulesFor(sl, rs) ==
    {i \in DOMAIN rs : rs[i].Available /\ TiledBy(sl, rs[i])}

\* C17: a rule that is not available adds no slot to a derivation: a slot
\* comes as often, at most, as available rules read by the call tile it;
\* and a CreateBooking inserts and succeeds only for a slot that an
\* available rule tiles.
C17_UnavailableRuleGivesNothing ==
    \A w \in Workers :
        /\ \A k \in DOMAIN slots[w] :
              Cardinality({j \in DOMAIN slots[w] : slots[w][j] = slots[w][k]})
                  <= Cardinality(AvailableRulesFor(slots[w][k], rsnap[w]))
        /\ ( /\ op[w].type = "CreateBooking"
             /\ pc[w] \in {"insert", "commit"} \/ (pc[w] = "idle" /\ res[w] = "ok") )
           => AvailableRulesFor(Slot(op[w].from, op[w].to), rsnap[w]) # {}

\* a CreateBooking for a slot that only a rule that is not available tiles
C17_Witness ==
    \E w \in Workers :
        /\ Done(w, "CreateBooking")
        /\ res[w] = "slot not available"
        /\ made[w] = {}
        /\ AvailableRulesFor(Slot(op[w].from, op[w].to), rsnap[w]) = {}
        /\ \E i \in DOMAIN rsnap[w] :
              ~rsnap[w][i].Available /\ TiledBy(Slot(op[w].from, op[w].to), rsnap[w][i])

\* C18: a GetSlots whose read of the rules finds no rule of the user returns
\* no slot and no error at that statement (unless the read itself fails),
\* whatever the window and the bookings, and reads no booking.
C18_NoRulesNoSlots ==
    [][\A w \in Workers :
          ( /\ op[w].type = "GetSlots"
            /\ pc[w] = "rules"
            /\ pc'[w] # "rules"
            /\ res'[w] # "storage error"
            /\ \A i \in DOMAIN rules : rules[i].UserID # op[w].user )
          => /\ pc'[w] = "idle"
             /\ res'[w] = "ok"
             /\ slots'[w] = <<>>]_vars

\* a user without rules, in a store with a rule and a confirmed booking
C18_Witness ==
    \E w \in Workers :
        /\ Done(w, "GetSlots") /\ res[w] = "ok"
        /\ slots[w] = <<>>
        /\ \A i \in DOMAIN rules : rules[i].UserID # op[w].user
        /\ DOMAIN rules # {}
        /\ \E i \in DOMAIN bookings : bookings[i].Status = "confirmed"

\* the rule's times of day are well formed and the end is at or before the start
EndNotAfterStart(r) ==
    /\ parseHHMM(r.StartTime) # ParseError
    /\ parseHHMM(r.EndTime) # ParseError
    /\ parseHHMM(r.EndTime) <= parseHHMM(r.StartTime)

\* the days GenerateAvailableSlots goes through for the window of request o
DaysOfWindow(o) ==
    {d \in WeekDays \cup {At(7, 0, 0)} : Truncate(FromUTC(o)) <= d /\ d <= Truncate(ToUTC(o))}

\* C19 as stated: no derivation goes on to read the bookings and return
\* slots when a rule it has read has its end at or before its start.
C19_AsStated ==
    \A w \in Workers :
        pc[w] = "bookings" => \A i \in DOMAIN rsnap[w] : ~EndNotAfterStart(rsnap[w][i])

\* C19, amended: a derivation whose read of the rules finds a rule of the
\* user with its end at or before its start, for the weekday of one of the
\* days from the day of windowStart to the day of windowEnd, returns no
\* slot and does not go on to read the bookings: it returns an error (or
\* does not return, when a rule with a slot length of zero or less comes
\* first).
C19_RecheckedOnDaysOfWindow ==
    [][\A w \in Workers :
          ( /\ pc[w] = "rules"
            /\ pc'[w] # "rules"
            /\ res'[w] # "storage error"
            /\ \E i \in DOMAIN rules : \E d \in DaysOfWindow(op[w]) :
                  /\ rules[i].UserID = op[w].user
                  /\ rules[i].DayOfWeek = Weekday(d)
                  /\ EndNotAfterStart(rules[i]) )
          => /\ pc'[w] # "bookings"
             /\ res'[w] \in {ErrEndBeforeStart, ErrInvalidTime, NonTerminating}
             /\ slots'[w] = <<>>]_vars

\* the error of a rule of Wednesday, after the slots of Monday were tiled
C19_Witness ==
    \E w \in Workers :
        /\ Done(w, "GetSlots")
        /\ res[w] = ErrEndBeforeStart
        /\ slots[w] = <<>>
        /\ op[w].from = At(0, 0, 0) /\ op[w].to = At(3, 0, 0)
        /\ \E i \in DOMAIN rules : rules[i] = Owned(RWedBackwards, op[w].user)
        /\ \E i \in DOMAIN rules : rules[i] = Owned(RMon30, op[w].user)

\* floor((endTime - startTime) / slotLengthMinutes) slots on the day that
\* starts at d, one after the other from the rule's start time
ExpectedSlots(r, d) ==
    LET st  == d + TimeParse1504(r.StartTime) * Minute
        len == r.SlotLengthMins * Minute
        n   == (TimeParse1504(r.EndTime) - TimeParse1504(r.StartTime)) \div r.SlotLengthMins
    IN  [j \in 1..n |-> Slot(st + (j - 1) * len, st + j * len)]

\* GetSlots has returned slots to worker w, for a user without bookings
DerivedWithoutBookings(w) ==
    /\ Done(w, "GetSlots") /\ res[w] = "ok"
    /\ \A i \in DOMAIN bookings : bookings[i].UserID # op[w].user

\* C20: with no bookings, for a day the window covers whole and an available
\* rule of that weekday (the only one of its slot length that day), the
\* slots of that length returned for the day are floor((endTime - startTime)
\* / slotLengthMinutes) slots, one after the other from startTime, in this
\* order; the rule Monday 09:00-10:00 with 30-minute slots gives 09:00-09:30
\* and 09:30-10:00 and nothing else.
C20_WholeDayTiling ==
    \A w \in Workers :
        DerivedWithoutBookings(w) =>
            /\ \A d \in WeekDays : \A i \in DOMAIN rsnap[w] :
                  ( /\ op[w].from <= d /\ op[w].to >= d + Day
                    /\ rsnap[w][i].Available
                    /\ rsnap[w][i].DayOfWeek = Weekday(d)
                    /\ \A j \in DOMAIN rsnap[w] \ {i} :
                          \/ rsnap[w][j].DayOfWeek # rsnap[w][i].DayOfWeek
                          \/ rsnap[w][j].SlotLengthMins # rsnap[w][i].SlotLengthMins )
                  => SelectSeq(slots[w],
                         LAMBDA sl : /\ Truncate(sl.StartUTC) = d
                                     /\ sl.EndUTC - sl.StartUTC
                                            = rsnap[w][i].SlotLengthMins * Minute)
                       = ExpectedSlots(rsnap[w][i], d)
            /\ ( /\ rsnap[w] = <<Owned(RMon30, op[w].user)>>
                 /\ op[w].from <= At(1, 0, 0)
                 /\ op[w].to >= At(2, 0, 0) /\ op[w].to < At(8, 0, 0) )
               => slots[w] = <<Slot(At(1, 9, 0), At(1, 9, 30)),
                               Slot(At(1, 9, 30), At(1, 10, 0))>>

\* the scenario, and a rule of 25-minute slots whose last ten minutes give
\* no slot
C20_Witness ==
    \E w, v \in Workers :
        /\ DerivedWithoutBookings(w)
        /\ rsnap[w] = <<Owned(RMon30, op[w].user)>>
        /\ op[w].from = At(1, 0, 0) /\ op[w].to = At(2, 0, 0)
        /\ Len(slots[w]) = 2
        /\ DerivedWithoutBookings(v)
        /\ rsnap[v] = <<Owned(RMon25, op[v].user)>>
        /\ slots[v] = <<Slot(At(1, 9, 0), At(1, 9, 25)), Slot(At(1, 9, 25), At(1, 9, 50))>>

\* the windows the clients that book look for slots in
BookWindows ==
    {<<o.from, o.to>> : o \in {i \in BookInputs : i.type = "GetSlots"}}

\* C21: when a CreateBooking commits the booking of slot S, the slots of a
\* window are, from then on, the slots the window had before without those
\* that start at S.start, and with every other one, in the same order.
C21_BookedSlotRemoved ==
    [][\A w \in Workers :
          ( /\ op[w].type = "CreateBooking"
            /\ pc[w] = "commit" /\ pc'[w] = "idle" /\ res'[w] = "ok" )
          => \A win \in BookWindows :
                LET before == GenerateAvailableSlots(rules, bookings, op[w].user,
                                                     win[1], win[2])
                    after  == GenerateAvailableSlots(rules', bookings', op[w].user,
                                                     win[1], win[2])
                IN  /\ after.err = before.err
                    /\ after.slots = SelectSeq(before.slots,
                                         LAMBDA sl : sl.StartUTC # op[w].from)]_vars

\* C22: the UPDATE of an UpdateAvailability sent a dayOfWeek of 0 leaves the
\* stored rule's dayOfWeek as it is, and the UPDATE of one sent another
\* dayOfWeek stores that one; so no step turns a rule of Monday to Saturday
\* into a rule of Sunday.
C22_DayOfWeekKept ==
    [][/\ \A w \in Workers :
            ( /\ op[w].type = "UpdateAvailability"
              /\ pc[w] = "updateRule" /\ pc'[w] = "getUpdated" )
            => LET day == op[w].batch[1].DayOfWeek
                   id  == op[w].id
               IN  IF day = 0
                   THEN rules'[id].DayOfWeek = rules[id].DayOfWeek
                   ELSE rules'[id].DayOfWeek = day
       /\ \A i \in DOMAIN rules :
            rules[i].DayOfWeek \in 1..6 => rules'[i].DayOfWeek # 0]_vars

\* the turn of SetAvailability's loop that worker w is at takes this step
LoopTurn(w) ==
    /\ op[w].type = "SetAvailability"
    /\ pc[w] = "insertRule"
    /\ pc'[w] # "insertRule" \/ idx'[w] # idx[w]
    /\ res'[w] # "storage error"

\* C23: a SetAvailability whose rule at position k fails validation returns
\* the error and no records at that turn of its loop and writes nothing
\* then; the rules before position k, inserted by the turns before, are
\* still stored for the user under the ids the inserts returned (each was
\* stored as sent by its own turn; an UpdateAvailability served since may
\* have rewritten it); and the call inserts nothing more: a rule is inserted
\* only by a turn whose rule is valid, which inserts that one rule as sent.
C23_BatchNotAtomic ==
    [][/\ \A w \in Workers :
            ( /\ LoopTurn(w)
              /\ validateAvailabilityRule(op[w].batch[idx[w]]) # NoErr )
            => /\ res'[w] = validateAvailabilityRule(op[w].batch[idx[w]])
               /\ out'[w] = <<>>
               /\ pc'[w] = "idle"
               /\ rules' = rules
               /\ Len(out[w]) = idx[w] - 1
               /\ \A j \in 1..(idx[w] - 1) :
                     /\ out[w][j] \in DOMAIN rules'
                     /\ rules'[out[w][j]].UserID = op[w].user
       /\ DOMAIN rules' # DOMAIN rules =>
            \E w \in Workers :
               /\ LoopTurn(w)
               /\ validateAvailabilityRule(op[w].batch[idx[w]]) = NoErr
               /\ idx'[w] = idx[w] + 1
               /\ \E id \in DOMAIN rules' \ DOMAIN rules :
                     /\ DOMAIN rules' = DOMAIN rules \cup {id}
                     /\ rules'[id] = Owned(op[w].batch[idx[w]], op[w].user)
                     /\ out'[w] = Append(out[w], id)]_vars

\* the first rule of a batch is stored and nothing else, and the call has
\* returned the error of the second and no records
C23_Witness ==
    \E w \in Workers :
        /\ Done(w, "SetAvailability")
        /\ op[w].batch = <<RMon30, RBackwards>>
        /\ res[w] = ErrEndBeforeStart
        /\ out[w] = <<>>
        /\ idx[w] = 2
        /\ calls = 1 /\ writes = 1
        /\ \E i \in DOMAIN rules : DOMAIN rules = {i} /\ rules[i] = Owned(RMon30, op[w].user)

ErrNoRows == "no rows in result set"

\* the user of w's request owns a rule with the id of the request
OwnsRule(w) ==
    \E i \in DOMAIN rules : i = op[w].id /\ rules[i].UserID = op[w].user

\* C24: the fetch of an UpdateAvailability for an id under which the user
\* owns no rule (no rule has the id, or another user's has) ends the call
\* with pgx.ErrNoRows, which the handler answers as not found; when the user
\* owns the rule and the times sent are not an end after a start, it ends
\* the call with the validation error; otherwise the call goes on to its
\* UPDATE. The step that ends the call changes no rule, and a call that has
\* returned one of the two errors has not reached its UPDATE.
C24_UpdateRejected ==
    /\ [][\A w \in Workers :
            ( /\ op[w].type = "UpdateAvailability"
              /\ pc[w] = "getRule" /\ pc'[w] # "getRule"
              /\ res'[w] # "storage error" )
            => IF ~OwnsRule(w)
               THEN res'[w] = ErrNoRows /\ pc'[w] = "idle" /\ rules' = rules
               ELSE IF ~EndAfterStart(op[w].batch[1])
               THEN /\ res'[w] \in {ErrEndBeforeStart, "parsing time"}
                    /\ pc'[w] = "idle" /\ rules' = rules
               ELSE pc'[w] = "updateRule"]_vars
    /\ [](\A w \in Workers :
            ( /\ Done(w, "UpdateAvailability")
              /\ res[w] \in {ErrNoRows, ErrEndBeforeStart, "parsing time"} )
            => upd[w] = <<>> /\ out[w] = <<>>)

\* an update of another user's rule and an update with the end before the
\* start have both been rejected
C24_Witness ==
    \E w, v \in Workers :
        /\ Done(w, "UpdateAvailability")
        /\ res[w] = ErrNoRows
        /\ op[w].id \in DOMAIN rules
        /\ rules[op[w].id].UserID # op[w].user
        /\ Done(v, "UpdateAvailability")
        /\ res[v] = ErrEndBeforeStart
        /\ OwnsRule(v)

\* the bookings request o asks for: those of its user that are not
\* cancelled and, when a range is given, start in [from, to)
AskedFor(o) ==
    {i \in DOMAIN bookings :
        /\ bookings[i].UserID = o.user
        /\ bookings[i].Status # "cancelled"
        /\ o.id = 1 => (o.from <= bookings[i].StartAtUTC /\ bookings[i].StartAtUTC < o.to)}

\* C25: the records a ListBookings returns are the bookings of the user that
\* are not cancelled when it reads them, all of them without a range and
\* with a range those with from <= startAt < to, each once, in ascending
\* order of startAt; none of them is cancelled.
C25_ListBookings ==
    /\ [][\A w \in Workers :
            ( /\ op[w].type = "ListBookings"
              /\ pc[w] = "list" /\ pc'[w] = "idle"
              /\ res'[w] # "storage error" )
            => /\ res'[w] = "ok"
               /\ Len(out'[w]) = Cardinality(AskedFor(op[w]))
               /\ \A i \in AskedFor(op[w]) :
                     \E k \in DOMAIN out'[w] : out'[w][k] = bookings[i]
               /\ \A j, k \in DOMAIN out'[w] :
                     j < k => out'[w][j].StartAtUTC <= out'[w][k].StartAtUTC]_vars
    /\ [](\A w \in Workers :
            op[w].type = "ListBookings" =>
               \A k \in DOMAIN out[w] :
                  /\ out[w][k].Status # "cancelled"
                  /\ out[w][k].UserID = op[w].user
                  /\ op[w].id = 1 =>
                        /\ op[w].from <= out[w][k].StartAtUTC
                        /\ out[w][k].StartAtUTC < op[w].to)

\* a range that ends where a booking of the user starts has returned the
\* one booking before it, and a listing with no range has returned two
\* bookings the earlier first, the later of which was made first
C25_Witness ==
    \E w, v \in Workers :
        /\ Done(w, "ListBookings") /\ res[w] = "ok"
        /\ op[w].id = 1 /\ op[w].to = At(1, 9, 30)
        /\ out[w] = <<Booking("u1", At(1, 9, 0), At(1, 9, 30), "confirmed")>>
        /\ \E i \in DOMAIN bookings :
              bookings[i] = Booking("u1", At(1, 9, 30), At(1, 10, 0), "confirmed")
        /\ Done(v, "ListBookings") /\ res[v] = "ok"
        /\ op[v].id = 0
        /\ Len(out[v]) = 2
        /\ out[v][1].StartAtUTC < out[v][2].StartAtUTC
        /\ out[v][1] = bookings[2] /\ out[v][2] = bookings[1]

\* workers w and v serve CreateBooking requests of one user for slots with
\* different starts at the same time; each slot was free and valid when its
\* request came, and no other request is served meanwhile
TwoSlotsAtOnce(w, v) ==
    /\ w # v
    /\ op[w].type = "CreateBooking" /\ op[v].type = "CreateBooking"
    /\ op[w].user = op[v].user
    /\ op[w].from # op[v].from
    /\ pre[w].seen = {pre[v].n} /\ pre[v].seen = {pre[w].n}
    /\ pre[w].valid /\ pre[w].free /\ pre[v].valid /\ pre[v].free

\* C26: of two concurrent CreateBooking calls of one user for two free and
\* valid slots with different starts, neither waits for the other at its
\* lookup, neither returns "slot already booked" or "slot not available",
\* and both succeed in the end (unless the store fails a statement).
C26_DifferentSlotsBothSucceed ==
    \A w, v \in Workers :
        TwoSlotsAtOnce(w, v) =>
            /\ pc[w] = "check" =>
                  CheckExistingBookingAtStart(bookings, op[w].user, op[w].from)
                      \cap LockedByOthers(w) = {}
            /\ res[w] \in {"", "ok", "storage error"}
            /\ (pc[w] = "idle" /\ res[w] # "storage error") =>
                  res[w] = "ok" /\ made[w] # {}

\* both calls have succeeded, the second having read the bookings after the
\* first had committed
C26_Witness ==
    \E w, v \in Workers :
        /\ TwoSlotsAtOnce(w, v)
        /\ Done(w, "CreateBooking") /\ Done(v, "CreateBooking")
        /\ res[w] = "ok" /\ res[v] = "ok"
        /\ Len(slots[v]) < Len(slots[w])
        /\ \A i \in made[w] \cup made[v] : bookings[i].Status = "confirmed"
        /\ Cardinality(made[w] \cup made[v]) = 2

\* C27: no step removes a rule or gives it to another user, so the rule ids
\* of a user only grow; and every id a SetAvailability has returned is the
\* id of a rule its user can fetch.
C27_RulesNeverDeleted ==
    /\ [][\A i \in DOMAIN rules :
            i \in DOMAIN rules' /\ rules'[i].UserID = rules[i].UserID]_vars
    /\ [](\A w \in Workers :
            (Done(w, "SetAvailability") /\ res[w] = "ok") =>
                /\ Len(out[w]) = Len(op[w].batch)
                /\ \A k \in DOMAIN out[w] :
                      \E i \in DOMAIN rules :
                          i = out[w][k] /\ rules[i].UserID = op[w].user)

\* a rule set by one call and a rule updated by another are both stored
C27_Witness ==
    \E w, v \in Workers :
        /\ Done(w, "SetAvailability") /\ res[w] = "ok"
        /\ Len(out[w]) = 1
        /\ rules[out[w][1]].UserID = op[w].user
        /\ Done(v, "UpdateAvailability") /\ res[v] = "ok"
        /\ out[v] = <<rules[op[v].id]>>
        /\ rules[op[v].id].SlotLengthMins = op[v].batch[1].SlotLengthMins
        /\ Cardinality(DOMAIN rules) = 2

\* C28: the statements of GenerateAvailableSlots (the read of the rules and
\* the read of the bookings, in GetSlots and in CreateBooking) and the
\* statement of ListAvailability and of ListBookings change no stored rule
\* and no stored booking.
C28_ReadsChangeNothing ==
    [][\A w \in Workers :
          (pc[w] \in {"rules", "bookings", "list"} /\ pc'[w] # pc[w])
              => rules' = rules /\ bookings' = bookings]_vars

\* slots have been derived and a list returned, with rules and a booking
\* stored
C28_Witness ==
    \E w, v \in Workers :
        /\ Done(w, "GetSlots") /\ res[w] = "ok"
        /\ Len(slots[w]) >= 1
        /\ op[v].type \in {"ListAvailability", "ListBookings"}
        /\ pc[v] = "idle" /\ res[v] = "ok"
        /\ Len(out[v]) >= 1
        /\ DOMAIN rules # {} /\ DOMAIN bookings # {}

\* sequence sls is in the order of (day, rule, start) when its entry k is
\* taken as a slot of rule f[k] of rs
InOrderAs(sls, rs, f) ==
    /\ \A k \in DOMAIN sls : rs[f[k]].Available /\ TiledBy(sls[k], rs[f[k]])
    /\ \A j, k \in DOMAIN sls :
          j < k =>
             LET dj == Truncate(sls[j].StartUTC)
                 dk == Truncate(sls[k].StartUTC)
             IN  \/ dj < dk
                 \/ dj = dk /\ f[j] < f[k]
                 \/ dj = dk /\ f[j] = f[k] /\ sls[j].StartUTC < sls[k].StartUTC

\* C29: the rules a derivation reads are the rules of the user in ascending
\* order of their ids; and the slots it returns can be told off to these
\* rules so that they come day by day, within a day rule by rule in that
\* order, and within a day and a rule with strictly increasing starts.
C29_DayRuleStartOrder ==
    /\ [][\A w \in Workers :
            (pc[w] = "rules" /\ pc'[w] = "bookings") =>
                \E g \in [DOMAIN rsnap'[w] -> DOMAIN rules] :
                    /\ \A j, k \in DOMAIN g : j < k => g[j] < g[k]
                    /\ \A k \in DOMAIN g : rsnap'[w][k] = rules[g[k]]
                    /\ {g[k] : k \in DOMAIN g}
                          = {i \in DOMAIN rules : rules[i].UserID = op[w].user}]_vars
    /\ [](\A w \in Workers :
            slots[w] # <<>> =>
                \E f \in [DOMAIN slots[w] -> DOMAIN rsnap[w]] :
                    InOrderAs(slots[w], rsnap[w], f))

\* the slots of Monday, of the rule with the higher id, come before the
\* slots of Tuesday, of the rule with the lower id
C29_Witness ==
    \E w \in Workers :
        /\ Done(w, "GetSlots") /\ res[w] = "ok"
        /\ rsnap[w] = <<Owned(RTue60, op[w].user), Owned(RMon30, op[w].user)>>
        /\ slots[w] = <<Slot(At(1, 9, 0), At(1, 9, 30)), Slot(At(1, 9, 30), At(1, 10, 0)),
                        Slot(At(2, 9, 0), At(2, 10, 0)), Slot(At(2, 10, 0), At(2, 11, 0))>>

\* how often slot sl is among sls
Copies(sls, sl) == Cardinality({k \in DOMAIN sls : sls[k] = sl})

\* C30: a slot that a derivation returns comes once for every available
\* rule it has read that tiles the slot; and when a CreateBooking commits,
\* a window that had several copies of a slot with the booked start has,
\* from then on, no slot with that start.
C30_EveryCopyRemoved ==
    /\ [](\A w \in Workers :
            \A k \in DOMAIN slots[w] :
                Copies(slots[w], slots[w][k])
                    = Cardinality(AvailableRulesFor(slots[w][k], rsnap[w])))
    /\ [][\A w \in Workers :
            ( /\ op[w].type = "CreateBooking"
              /\ pc[w] = "commit" /\ pc'[w] = "idle" /\ res'[w] = "ok" )
            => \A win \in BookWindows :
                  LET before == GenerateAvailableSlots(rules, bookings, op[w].user,
                                                       win[1], win[2]).slots
                      after  == GenerateAvailableSlots(rules', bookings', op[w].user,
                                                       win[1], win[2]).slots
                  IN  (\E k \in DOMAIN before :
                          /\ before[k].StartUTC = op[w].from
                          /\ Copies(before, before[k]) >= 2)
                      => \A k \in DOMAIN after : after[k].StartUTC # op[w].from]_vars

\* C31: every statement a CreateBooking executes while its transaction is
\* open (the lookup for the start, the reading of the rules and of the
\* bookings for the slot derivation, the insert) is executed on that
\* transaction: the protocol runs in the one transaction the call owns.
C31_OneTransaction ==
    \A w \in Workers : TxOpen(w) /\ pc[w] # "hung" => Querier(pc[w]) = "trx"

\* C36: every request that is being served returns in the end, with a
\* result or an error, however many CreateBooking calls hold a connection
\* of the pool for their transaction and need another for the derivation.
C36_EveryCallReturns ==
    \A w \in Workers : InFlight(w) ~> ~InFlight(w)

\* the rules of a user, and the confirmed bookings of a user, under their ids
OwnRules(rl, userID) ==
    [i \in {k \in DOMAIN rl : rl[k].UserID = userID} |-> rl[i]]

OwnConfirmed(bk, userID) ==
    [i \in {k \in DOMAIN bk : bk[k].UserID = userID /\ bk[k].Status = "confirmed"} |->
        bk[i]]

\* the windows GetSlots is asked for: the day of every slot a CreateBooking
\* asks for
UsersWindows ==
    {<<FromUTC(o), ToUTC(o)>> : o \in {i \in UsersInputs : i.type = "GetSlots"}}

\* C32: what the slot derivation returns for a user, and what each step of
\* a CreateBooking decides for a user, is what it would be on a store that
\* holds that user's rules and that user's confirmed bookings and nothing
\* else: the lookup reports a conflict exactly when the user has a confirmed
\* booking at the start, the rules read are the user's rules, and the slots
\* are the candidates of those rules without those at which a confirmed
\* booking of the user starts. So a booking of another user at the same
\* start removes no slot and causes no conflict.
C32_OnlyOwnRows ==
    /\ [](\A u \in {"u1", "u2"} : \A win \in UsersWindows :
            GenerateAvailableSlots(rules, bookings, u, win[1], win[2])
              = GenerateAvailableSlots(OwnRules(rules, u), OwnConfirmed(bookings, u),
                                       u, win[1], win[2]))
    /\ [][\A w \in Workers :
            LET o    == op[w]
                mine == OwnConfirmed(bookings, o.user)
            IN
            /\ ( pc[w] = "check" /\ pc'[w] # "check" /\ res'[w] # "storage error" )
               => ( res'[w] = "slot already booked"
                      <=> \E i \in DOMAIN mine : mine[i].StartAtUTC = o.from )
            /\ ( pc[w] = "rules" /\ pc'[w] = "bookings" )
               => rsnap'[w] = ListAvailabilityRules(OwnRules(rules, o.user), o.user)
            /\ ( pc[w] = "bookings" /\ pc'[w] # "bookings" /\ res'[w] # "storage error" )
               => slots'[w] =
                    SelectSeq(CandidateSlots(rsnap[w], FromUTC(o), ToUTC(o)).slots,
                              LAMBDA sl : \A i \in DOMAIN mine :
                                             \/ mine[i].StartAtUTC # sl.StartUTC
                                             \/ mine[i].StartAtUTC < FromUTC(o) - Hour
                                             \/ mine[i].StartAtUTC >= ToUTC(o) + Hour)
         ]_vars

\* while u2 has a confirmed booking at Monday 09:00, u1 has been returned the
\* slot at 09:00 and has booked it
C32_Witness ==
    \E w, v \in Workers :
        /\ Done(w, "CreateBooking") /\ op[w].user = "u1" /\ op[w].from = At(1, 9, 0)
        /\ res[w] = "ok"
        /\ slots[w] # <<>> /\ slots[w][1].StartUTC = At(1, 9, 0)
        /\ Done(v, "GetSlots") /\ op[v].user = "u1" /\ res[v] = "ok"
        /\ Len(slots[v]) = 2 /\ slots[v][1].StartUTC = At(1, 9, 0)
        /\ \E i, j \in DOMAIN bookings :
              /\ bookings[i] = Booking("u2", At(1, 9, 0), At(1, 9, 30), "confirmed")
              /\ bookings[j] = Booking("u1", At(1, 9, 0), At(1, 9, 30), "confirmed")

\* the slot of a booking is a slot of the user's rules: the derivation, were
\* no booking stored, would return it for the window a CreateBooking asks
SlotOfRules(b) ==
    SlotMatches(CandidateSlots(ListAvailabilityRules(rules, b.UserID),
                               b.StartAtUTC - Second, b.EndAtUTC + Second).slots,
                b.StartAtUTC, b.EndAtUTC)

\* C33: when a CancelBooking cancels a confirmed booking whose slot S is a
\* slot of the user's rules, then from that step on the booking is cancelled,
\* the derivation returns S for the window of a day and for the window a
\* CreateBooking of S asks, and the lookup of a CreateBooking of S finds no
\* booking, so that it goes on to insert; and a CreateBooking that commits
\* adds one row under an id that no row had, and changes no other row.
C33_SlotFreeAfterCancel ==
    [][/\ \A w \in Workers : \A i \in DOMAIN bookings :
            ( /\ pc[w] = "cancel" /\ pc'[w] = "idle" /\ res'[w] = "ok"
              /\ op[w].id = i
              /\ bookings[i].Status = "confirmed"
              /\ SlotOfRules(bookings[i]) )
            => LET b == bookings[i] IN
               /\ bookings'[i] = [b EXCEPT !.Status = "cancelled"]
               /\ \A win \in { <<Truncate(b.StartAtUTC), Truncate(b.StartAtUTC) + Day>>,
                               <<b.StartAtUTC - Second, b.EndAtUTC + Second>> } :
                     SlotMatches(GenerateAvailableSlots(rules', bookings', b.UserID,
                                                        win[1], win[2]).slots,
                                 b.StartAtUTC, b.EndAtUTC)
               /\ CheckExistingBookingAtStart(bookings', b.UserID, b.StartAtUTC) = {}
       /\ \A w \in Workers :
            ( pc[w] = "commit" /\ pc'[w] = "idle" /\ res'[w] = "ok" )
            => /\ newID[w] \notin DOMAIN bookings
               /\ DOMAIN bookings' = DOMAIN bookings \cup {newID[w]}
               /\ bookings'[newID[w]] = Booking(op[w].user, op[w].from, op[w].to, "confirmed")
               /\ \A k \in DOMAIN bookings : bookings'[k] = bookings[k]]_vars

\* the intervals [StartAtUTC, EndAtUTC) of two bookings have an instant in common
Overlap(a, b) == a.StartAtUTC < b.EndAtUTC /\ b.StartAtUTC < a.EndAtUTC

\* C34: the intervals of any two confirmed bookings of one user are disjoint.
C34_ConfirmedDisjoint ==
    \A i, j \in DOMAIN bookings :
        ( /\ i # j
          /\ bookings[i].UserID = bookings[j].UserID
          /\ bookings[i].Status = "confirmed"
          /\ bookings[j].Status = "confirmed" )
        => ~Overlap(bookings[i], bookings[j])

\* C35: no call of GenerateAvailableSlots is in a loop that does not end:
\* every derivation over rules that SetAvailability and UpdateAvailability
\* have stored returns, whatever the slot length of the rules.
C35_DerivationReturns ==
    \A w \in Workers : pc[w] # "hung" /\ res[w] # NonTerminating

\* C37: the UPDATE of an UpdateAvailability changes the rule with the given
\* id, which the user owns, and nothing else: the rule keeps its id, its
\* user and its created_at, and its start time, end time, slot length, title
\* and available flag become those sent; every other rule, with its
\* timestamps, and every booking is as before. No other statement of an
\* UpdateAvailability changes a table.
C37_UpdateChangesOneRule ==
    [][\A w \in Workers :
          op[w].type = "UpdateAvailability" =>
             IF pc[w] = "updateRule" /\ pc'[w] = "getUpdated"
             THEN LET id == op[w].id
                      in == op[w].batch[1]
                  IN  /\ id \in DOMAIN rules
                      /\ rules[id].UserID = op[w].user
                      /\ DOMAIN rules' = DOMAIN rules
                      /\ DOMAIN stamps' = DOMAIN stamps
                      /\ rules'[id].UserID = rules[id].UserID
                      /\ stamps'[id].CreatedAt = stamps[id].CreatedAt
                      /\ rules'[id].StartTime = in.StartTime
                      /\ rules'[id].EndTime = in.EndTime
                      /\ rules'[id].SlotLengthMins = in.SlotLengthMins
                      /\ rules'[id].Title = in.Title
                      /\ rules'[id].Available = in.Available
                      /\ \A k \in DOMAIN rules \ {id} :
                            rules'[k] = rules[k] /\ stamps'[k] = stamps[k]
                      /\ bookings' = bookings
             ELSE (pc'[w] # pc[w] /\ pc[w] # "idle") => UNCHANGED store]_vars

\* an update of rule 1 that sent a title, other times and no weekday has
\* returned: the rule has what was sent and is of Monday and of u1 as before,
\* created when it was; the rule of u2 and the booking made from the 09:00
\* slot are as they were
C37_Witness ==
    \E w \in Workers :
        /\ Done(w, "UpdateAvailability") /\ res[w] = "ok"
        /\ op[w].id = 1 /\ op[w].batch = <<RRetitled>>
        /\ rules = <<[Owned(RRetitled, "u1") EXCEPT !.DayOfWeek = 1], Owned(RMon30, "u2")>>
        /\ stamps = <<[CreatedAt |-> 0, UpdatedAt |-> 1], [CreatedAt |-> 0, UpdatedAt |-> 0]>>
        /\ bookings = <<Booking("u1", At(1, 9, 0), At(1, 9, 30), "confirmed")>>

\* two requests, the only ones to have come in, are updates of one rule of
\* one user that overlapped, and both have returned success
UpdatedTogether(w, v) ==
    /\ w # v /\ calls = 2
    /\ Done(w, "UpdateAvailability") /\ Done(v, "UpdateAvailability")
    /\ res[w] = "ok" /\ res[v] = "ok"
    /\ op[w].id = op[v].id /\ op[w].user = op[v].user
    /\ pre[v].n \in pre[w].seen

\* what UpdateAvailability stores for the rule sent, run on its own on the
\* stored rule r
Updated(r, sent) ==
    [sent EXCEPT !.UserID = r.UserID,
                 !.DayOfWeek = IF sent.DayOfWeek = 0 THEN r.DayOfWeek ELSE sent.DayOfWeek]

\* C38: after two overlapping updates of one rule the stored rule is what
\* the two leave when run one after the other in one of the two orders: the
\* rule the second one stores on the rule the first one has stored.
C38_UpdatesLinearizable ==
    \A w, v \in Workers :
        UpdatedTogether(w, v) =>
            \/ rules[op[w].id] = Updated(Owned(upd[v][1], op[v].user), op[w].batch[1])
            \/ rules[op[w].id] = Updated(Owned(upd[w][1], op[w].user), op[v].batch[1])

\* the keys a client can hold: the key issued before and those of the requests
AllKeys == {"sk_0"} \cup {UUIDs[n] : n \in DOMAIN UUIDs}

\* the keys that pass ValidateAPIKey as the key of this email
Passing(email) ==
    {k \in AllKeys :
        \E i \in GetAPIKeyByHash(apiKeys, hashAPIKey(k)) : apiKeys[i].Email = email}

\* the writes of GenerateAPIKey for this email, in the order they were made
IssuedFor(email) == {i \in DOMAIN issued : issued[i].Email = email}

\* the latest of them
LastIssued(email) ==
    CHOOSE i \in IssuedFor(email) : \A j \in IssuedFor(email) : j <= i

====
